---------------------------- MODULE Spec2Model ----------------------------
(***************************************************************************)
(* A model of NewellePlanningExtension (src/newelle_planning.py): the      *)
(* three markdown documents task_plan.md, findings.md and progress.md in   *)
(* the planning directory, and the operations that read, rewrite and       *)
(* parse them.                                                             *)
(*                                                                         *)
(* Text is modelled as TLA+ strings, character by character: offsets are   *)
(* Python's (0-based, half-open slices), so every find/index/rstrip/regex  *)
(* of the source is computed the way the source computes it.  Documents    *)
(* hold LF line ends only, as the program itself writes them.              *)
(***************************************************************************)
EXTENDS Integers, Sequences, FiniteSets, TLC

VARIABLES
    files,      \* the planning directory: file name -> text (DOMAIN = files present)
    last        \* the last call: operation, arguments, directory before, returned string

PLAN == "task_plan.md"
FINDINGS == "findings.md"
PROGRESS == "progress.md"

(***************************************************************************)
(* Python's str primitives.                                                *)
(***************************************************************************)
Min2(a, b) == IF a <= b THEN a ELSE b
Max2(a, b) == IF a >= b THEN a ELSE b
SetMin(S) == CHOOSE x \in S : \A y \in S : x <= y
SetMax(S) == CHOOSE x \in S : \A y \in S : x >= y

\* s[a:b] for 0 <= a, with b clamped to len(s)
Slice(s, a, b) == SubSeq(s, a + 1, Min2(b, Len(s)))
\* s[a:]
From(s, a) == SubSeq(s, a + 1, Len(s))
\* s[i], or '' beyond the end (where the source's patterns simply do not match)
Chr(s, i) == IF i < Len(s) THEN SubSeq(s, i + 1, i + 1) ELSE ""

\* str.isspace for one character (what str.strip() removes and \s matches)
IsSpace(c) == c \in {" ", "\t", "\n", "\r", "\f"}

\* s.find(sub, start): the lowest offset >= start where sub occurs, or -1
Find(s, sub, start) ==
    LET hits == {i \in start .. (Len(s) - Len(sub)) : Slice(s, i, i + Len(sub)) = sub}
    IN  IF hits = {} THEN -1 ELSE SetMin(hits)

\* s.startswith(prefix), s.endswith(suffix)
StartsWith(s, prefix) == Slice(s, 0, Len(prefix)) = prefix
EndsWith(s, suffix) == Len(suffix) <= Len(s) /\ From(s, Len(s) - Len(suffix)) = suffix

\* sub in s
Contains(s, sub) == Find(s, sub, 0) # -1

\* s.count(sub): non-overlapping occurrences, left to right
RECURSIVE CountFrom(_, _, _)
CountFrom(s, sub, start) ==
    LET p == Find(s, sub, start)
    IN  IF p = -1 THEN 0 ELSE 1 + CountFrom(s, sub, p + Len(sub))
Count(s, sub) == CountFrom(s, sub, 0)

\* s.rstrip(), s.lstrip(), s.strip()
RECURSIVE RStrip(_)
RStrip(s) ==
    IF s # "" /\ IsSpace(Chr(s, Len(s) - 1)) THEN RStrip(Slice(s, 0, Len(s) - 1)) ELSE s
RECURSIVE LStrip(_)
LStrip(s) ==
    IF s # "" /\ IsSpace(Chr(s, 0)) THEN LStrip(From(s, 1)) ELSE s
Strip(s) == LStrip(RStrip(s))

\* str.lower(), letter by letter
Uppercase == "ABCDEFGHIJKLMNOPQRSTUVWXYZ"
Lowercase == "abcdefghijklmnopqrstuvwxyz"
LowerOf == [c \in {Chr(Uppercase, i) : i \in 0 .. 25} |->
               Chr(Lowercase, Find(Uppercase, c, 0))]
LowerChar(c) == IF c \in DOMAIN LowerOf THEN LowerOf[c] ELSE c
RECURSIVE Lower(_)
Lower(s) == IF s = "" THEN "" ELSE LowerChar(Chr(s, 0)) \o Lower(From(s, 1))

\* s.replace(old, ""): every non-overlapping occurrence removed, left to right
RECURSIVE Remove(_, _)
Remove(s, old) ==
    LET p == Find(s, old, 0)
    IN  IF p = -1 THEN s ELSE Slice(s, 0, p) \o Remove(From(s, p + Len(old)), old)

\* f.readlines(): the lines with their line ends kept
RECURSIVE ReadLines(_)
ReadLines(s) ==
    IF s = "" THEN <<>>
    ELSE LET p == Find(s, "\n", 0)
         IN  IF p = -1 THEN <<s>>
             ELSE <<Slice(s, 0, p + 1)>> \o ReadLines(From(s, p + 1))

\* f.writelines(lines): the strings one after another
RECURSIVE WriteLines(_)
WriteLines(lines) ==
    IF lines = <<>> THEN "" ELSE Head(lines) \o WriteLines(Tail(lines))

\* s.split('\n'): the pieces between line ends (one more than there are line ends)
RECURSIVE SplitLines(_)
SplitLines(s) ==
    LET p == Find(s, "\n", 0)
    IN  IF p = -1 THEN <<s>>
        ELSE <<Slice(s, 0, p)>> \o SplitLines(From(s, p + 1))

\* the offset after the longest run of whitespace starting at i (a greedy \s*)
RECURSIVE SkipSpaces(_, _)
SkipSpaces(s, i) ==
    IF i < Len(s) /\ IsSpace(Chr(s, i)) THEN SkipSpaces(s, i + 1) ELSE i

(***************************************************************************)
(* difflib.SequenceMatcher(None, a, b).ratio() as a fraction <<2*M, T>>.    *)
(* No junk is configured and the automatic junk heuristic needs a second   *)
(* sequence of 200 or more elements, so find_longest_match returns the     *)
(* longest common block, of those the one starting earliest in a, and of   *)
(* those the one starting earliest in b; get_matching_blocks recurses on   *)
(* the pieces to its left and to its right.                                *)
(***************************************************************************)
\* the length of the common run of a from i and b from j
RECURSIVE CommonRun(_, _, _, _, _, _)
CommonRun(a, b, i, j, ahi, bhi) ==
    IF i < ahi /\ j < bhi /\ Chr(a, i) = Chr(b, j)
    THEN 1 + CommonRun(a, b, i + 1, j + 1, ahi, bhi)
    ELSE 0

\* the sum of the sizes of the matching blocks of a[alo:ahi] and b[blo:bhi]
RECURSIVE MatchCount(_, _, _, _, _, _)
MatchCount(a, b, alo, ahi, blo, bhi) ==
    LET runs == {<<CommonRun(a, b, i, j, ahi, bhi), i, j>> :
                    i \in alo .. (ahi - 1), j \in blo .. (bhi - 1)}
        k == IF runs = {} THEN 0 ELSE SetMax({r[1] : r \in runs})
    IN  IF k = 0 THEN 0
        ELSE LET i == SetMin({r[2] : r \in {x \in runs : x[1] = k}})
                 j == SetMin({r[3] : r \in {x \in runs : x[1] = k /\ x[2] = i}})
             IN  k + MatchCount(a, b, alo, i, blo, j)
                   + MatchCount(a, b, i + k, ahi, j + k, bhi)

Ratio(a, b) ==
    IF Len(a) + Len(b) = 0 THEN <<1, 1>>
    ELSE <<2 * MatchCount(a, b, 0, Len(a), 0, Len(b)), Len(a) + Len(b)>>

\* scores are fractions <<numerator, denominator>> with positive denominators
ScoreGT(x, y) == x[1] * y[2] > y[1] * x[2]
SubstringScore == <<9, 10>>
FuzzyThreshold == <<8, 10>>

(***************************************************************************)
(* mark_complete: the regular expressions on one line of the plan.         *)
(***************************************************************************)
\* the end offset of a match of \s*[-*]\s*\[ \] starting at offset p, or -1
MatchBox(line, p) ==
    LET i == SkipSpaces(line, p)
    IN  IF i < Len(line) /\ Chr(line, i) \in {"-", "*"}
        THEN LET j == SkipSpaces(line, i + 1)
             IN  IF Slice(line, j, j + 3) = "[ ]" THEN j + 3 ELSE -1
        ELSE -1

\* re.match(r'^\s*[-*]\s*\[ \]', line) is not None
is_incomplete_task(line) == MatchBox(line, 0) # -1

\* re.sub(r'^\s*[-*]\s*\[ \]\s*', '', line).strip()
TaskText(line) ==
    IF MatchBox(line, 0) = -1 THEN Strip(line)
    ELSE Strip(From(line, SkipSpaces(line, MatchBox(line, 0))))

\* a slip: the line is written anew from its text instead of edited in place
CheckBox_rewritten(line) == "- [x] " \o TaskText(line) \o "\n"

\* re.sub(r'(\s*[-*]\s*)\[ \]', r'\1[x]', line, count=1): the leftmost match
CheckBox(line) ==
    LET starts == {p \in 0 .. Len(line) : MatchBox(line, p) # -1}
    IN  IF starts = {} THEN line
        ELSE LET p == SetMin(starts)
                 e == MatchBox(line, p)
             IN  Slice(line, 0, e - 3) \o "[x]" \o From(line, e)

\* a slip: the exact match search compares without regard to case
RECURSIVE ExactScan_anycase(_, _, _)
ExactScan_anycase(lines, phase_or_item, i) ==
    IF i >= Len(lines) THEN -1
    ELSE IF is_incomplete_task(lines[i + 1])
            /\ Lower(TaskText(lines[i + 1])) = Lower(Strip(phase_or_item))
         THEN i
         ELSE ExactScan_anycase(lines, phase_or_item, i + 1)

\* a slip: an item without text is never an exact match
RECURSIVE ExactScan_nonblank(_, _, _)
ExactScan_nonblank(lines, phase_or_item, i) ==
    IF i >= Len(lines) THEN -1
    ELSE IF is_incomplete_task(lines[i + 1])
            /\ TaskText(lines[i + 1]) # ""
            /\ TaskText(lines[i + 1]) = Strip(phase_or_item)
         THEN i
         ELSE ExactScan_nonblank(lines, phase_or_item, i + 1)

\* 1. the exact match search: the first incomplete task whose text is the item
RECURSIVE ExactScan(_, _, _)
ExactScan(lines, phase_or_item, i) ==
    IF i >= Len(lines) THEN -1
    ELSE IF is_incomplete_task(lines[i + 1])
            /\ TaskText(lines[i + 1]) = Strip(phase_or_item)
         THEN i
         ELSE ExactScan(lines, phase_or_item, i + 1)

\* a slip: the search for candidates goes over every line, checked items too
RECURSIVE Candidates_anyline(_, _, _)
Candidates_anyline(lines, target, i) ==
    IF i >= Len(lines) THEN <<>>
    ELSE LET line == lines[i + 1]
             task_text == TaskText(line)
             task_lower == Lower(task_text)
             rest == Candidates_anyline(lines, target, i + 1)
         IN  IF Contains(task_lower, target)
             THEN <<[i |-> i, score |-> SubstringScore, text |-> task_text]>> \o rest
             ELSE LET ratio == Ratio(target, task_lower)
                  IN  IF ScoreGT(ratio, FuzzyThreshold)
                      THEN <<[i |-> i, score |-> ratio, text |-> task_text]>> \o rest
                      ELSE rest

\* 2. the candidates of the substring / fuzzy search, in document order
RECURSIVE Candidates(_, _, _)
Candidates(lines, target, i) ==
    IF i >= Len(lines) THEN <<>>
    ELSE LET line == lines[i + 1]
             task_text == TaskText(line)
             task_lower == Lower(task_text)
             rest == Candidates(lines, target, i + 1)
         IN  IF ~is_incomplete_task(line) THEN rest
             ELSE IF Contains(task_lower, target)
                  THEN <<[i |-> i, score |-> SubstringScore, text |-> task_text]>> \o rest
                  ELSE LET ratio == Ratio(target, task_lower)
                       IN  IF ScoreGT(ratio, FuzzyThreshold)
                           THEN <<[i |-> i, score |-> ratio, text |-> task_text]>> \o rest
                           ELSE rest

\* a slip: the candidates are left in document order
SortedByScore_unsorted(cands) == cands

\* candidates.sort(key=score, reverse=True): list.sort is stable, so equal
\* scores keep their order; each element goes behind those scoring no less
RECURSIVE SortedByScore(_)
SortedByScore(cands) ==
    IF cands = <<>> THEN <<>>
    ELSE LET n == Len(cands)
             x == cands[n]
             done == SortedByScore(SubSeq(cands, 1, n - 1))
             keep == {k \in 1 .. Len(done) : ~ScoreGT(x.score, done[k].score)}
             at == IF keep = {} THEN 0 ELSE SetMax(keep)
         IN  SubSeq(done, 1, at) \o <<x>> \o SubSeq(done, at + 1, Len(done))

\* a slip: with no candidate the first incomplete task is taken
BestMatchIdx_fallback(lines, phase_or_item) ==
    LET target == Lower(Strip(phase_or_item))
        exact == ExactScan(lines, phase_or_item, 0)
        open == {i \in 0 .. Len(lines) - 1 : is_incomplete_task(lines[i + 1])}
    IN  IF exact # -1 THEN exact
        ELSE LET candidates == SortedByScore(Candidates(lines, target, 0))
             IN  IF candidates # <<>> THEN candidates[1].i
                 ELSE IF open # {} THEN SetMin(open) ELSE -1

\* best_match_idx: the 0-based index of the line to check, or -1
BestMatchIdx(lines, phase_or_item) ==
    LET target == Lower(Strip(phase_or_item))
        exact == ExactScan(lines, phase_or_item, 0)
    IN  IF exact # -1 THEN exact
        ELSE LET candidates == SortedByScore(Candidates(lines, target, 0))
             IN  IF candidates # <<>> THEN candidates[1].i ELSE -1

\* the prefixes of the returned strings (the source's emoji, named)
OkMark == "{check-mark}"
WarnMark == "{warning}"
ErrMark == "{cross-mark}"
ClipMark == "{clipboard}"

\* the lines written back: lines[best_match_idx] = new_line
CheckedLines(lines, idx) ==
    [k \in 1 .. Len(lines) |-> IF k = idx + 1 THEN CheckBox(lines[k]) ELSE lines[k]]

\* mark_complete(phase_or_item) on directory fs: the directory and the string returned
mark_complete(fs, phase_or_item) ==
    IF PLAN \notin DOMAIN fs
    THEN [files |-> fs, out |-> WarnMark \o " No task_plan.md found."]
    ELSE LET lines == ReadLines(fs[PLAN])
             best_match_idx == BestMatchIdx(lines, phase_or_item)
         IN  IF best_match_idx # -1
             THEN [files |-> [fs EXCEPT ![PLAN] =
                                 WriteLines(CheckedLines(lines, best_match_idx))],
                   out |-> OkMark \o " Marked as complete: "
                             \o TaskText(lines[best_match_idx + 1])]
             ELSE [files |-> fs,
                   out |-> WarnMark \o " Item '" \o phase_or_item
                             \o "' not found (or already completed)"]

(***************************************************************************)
(* _parse_todos_from_plan and _get_planning_data.                          *)
(***************************************************************************)
\* \s+(.+)$ from offset e of a line: the group, or no match.  \s+ is greedy
\* and gives one character back when nothing else is left for (.+)
TailGroup(line, e) ==
    LET w == SkipSpaces(line, e)
    IN  IF w = e THEN [ok |-> FALSE, text |-> ""]
        ELSE IF w < Len(line) THEN [ok |-> TRUE, text |-> From(line, w)]
        ELSE IF w - e >= 2 THEN [ok |-> TRUE, text |-> From(line, w - 1)]
        ELSE [ok |-> FALSE, text |-> ""]

\* re.match(r'^###\s+(.+)$', line)
PhaseMatch(line) ==
    IF Slice(line, 0, 3) = "###" THEN TailGroup(line, 3)
    ELSE [ok |-> FALSE, text |-> ""]

\* re.match(r'^-\s+\[([ x])\]\s+(.+)$', line)
TodoMatch(line) ==
    LET b == SkipSpaces(line, 1)
        none == [ok |-> FALSE, completed |-> FALSE, text |-> ""]
    IN  IF Chr(line, 0) = "-" /\ b > 1
           /\ Chr(line, b) = "[" /\ Chr(line, b + 1) \in {" ", "x"}
           /\ Chr(line, b + 2) = "]" /\ TailGroup(line, b + 3).ok
        THEN [ok |-> TRUE, completed |-> Chr(line, b + 1) = "x",
              text |-> TailGroup(line, b + 3).text]
        ELSE none

\* current_phase = None
NoPhase == ""

RECURSIVE ParseLines(_, _)
ParseLines(lines, current_phase) ==
    IF lines = <<>> THEN <<>>
    ELSE LET line == Head(lines)
             phase == IF PhaseMatch(line).ok THEN PhaseMatch(line).text
                      ELSE current_phase
             todo == TodoMatch(line)
         IN  (IF todo.ok
              THEN <<[text |-> todo.text, completed |-> todo.completed, phase |-> phase]>>
              ELSE <<>>)
             \o ParseLines(Tail(lines), phase)

_parse_todos_from_plan(content) == ParseLines(SplitLines(content), NoPhase)

\* re.search(r'## Objective\n(.+?)(?=\n##|\Z)', content, re.DOTALL): the group,
\* stripped, or '' without a match
ObjectiveOf(content) ==
    LET p == Find(content, "## Objective\n", 0)
        start == p + Len("## Objective\n")
    IN  IF p = -1 \/ start >= Len(content) THEN ""
        ELSE LET q == Find(content, "\n##", start + 1)
             IN  Strip(Slice(content, start, IF q = -1 THEN Len(content) ELSE q))

CountCompleted(todos) == Cardinality({k \in 1 .. Len(todos) : todos[k].completed})

_get_planning_data(fs) ==
    LET content == fs[PLAN]
    IN  IF PLAN \notin DOMAIN fs
        THEN [task_name |-> "No Plan", objective |-> "", todos |-> <<>>,
              completed |-> 0, total |-> 0, errors |-> 0, exists |-> FALSE,
              has_findings |-> FINDINGS \in DOMAIN fs,
              has_progress |-> PROGRESS \in DOMAIN fs]
        ELSE [task_name |-> IF Contains(content, "# Task Plan:")
                            THEN Strip(Remove(SplitLines(content)[1], "# Task Plan:"))
                            ELSE "No Plan",
              objective |-> ObjectiveOf(content),
              todos |-> _parse_todos_from_plan(content),
              completed |-> CountCompleted(_parse_todos_from_plan(content)),
              total |-> Len(_parse_todos_from_plan(content)),
              errors |-> Count(content, "### Error at"),
              exists |-> TRUE,
              has_findings |-> FINDINGS \in DOMAIN fs,
              has_progress |-> PROGRESS \in DOMAIN fs]

(***************************************************************************)
(* The templates of the three documents.                                   *)
(***************************************************************************)
TASK_PLAN_TEMPLATE(task_name, date, objective, phases) ==
    "# Task Plan: " \o task_name \o "\n"
    \o "Created: " \o date \o "\n"
    \o "Status: In Progress\n"
    \o "\n"
    \o "## Objective\n"
    \o objective \o "\n"
    \o "\n"
    \o "## Phases\n"
    \o phases \o "\n"
    \o "\n"
    \o "## Decisions\n"
    \o "<!-- Record key decisions here -->\n"
    \o "\n"
    \o "## Error Log\n"
    \o "<!-- Log any errors or failed attempts here -->\n"
    \o "\n"
    \o "## Notes\n"
    \o "<!-- Additional notes and observations -->\n"

FINDINGS_TEMPLATE(task_name, date) ==
    "# Findings: " \o task_name \o "\n"
    \o "Created: " \o date \o "\n"
    \o "\n"
    \o "## Research Notes\n"
    \o "<!-- Store research and findings here instead of context -->\n"
    \o "\n"
    \o "## Technical Decisions\n"
    \o "<!-- Record technical choices and rationale -->\n"
    \o "\n"
    \o "## Key Discoveries\n"
    \o "\n"
    \o "## References\n"
    \o "\n"
    \o "## Code Snippets\n"
    \o "<!-- Important code patterns found -->\n"

PROGRESS_TEMPLATE(task_name, date) ==
    "# Progress Log: " \o task_name \o "\n"
    \o "Created: " \o date \o "\n"
    \o "\n"
    \o "## Status Check\n"
    \o "<!-- 5-Question Check when resuming -->\n"
    \o "1. What is the current specific goal?\n"
    \o "2. What has been done so far?\n"
    \o "3. What is the immediate next step?\n"
    \o "4. What information is missing?\n"
    \o "5. Are there any errors or blockers?\n"
    \o "\n"
    \o "## Session Log\n"
    \o "\n"
    \o "### " \o date \o "\n"
    \o "- Started task\n"
    \o "- Created planning files\n"
    \o "\n"
    \o "## Test Results\n"
    \o "<!-- Document test outcomes here -->\n"
    \o "| Test | Result | Notes |\n"
    \o "|------|--------|-------|\n"
    \o "\n"
    \o "## Next Steps\n"

\* the planning directory as _get_planning_dir() resolves it when the setting
\* planning_directory is not set: os.path.join(os.getcwd(), ".")
PlanningDir == "/project/."

\* str(i) for the phase numbers
RECURSIVE IntToStr(_)
IntToStr(i) ==
    IF i < 10 THEN SubSeq("0123456789", i + 1, i + 1)
    ELSE IntToStr(i \div 10) \o IntToStr(i % 10)

(***************************************************************************)
(* create_plan                                                             *)
(***************************************************************************)
DefaultPhases ==
    "### Phase 1: Planning\n"
    \o "- [ ] Define requirements\n"
    \o "- [ ] Identify dependencies\n"
    \o "- [ ] Create initial plan\n"

\* for i, phase in enumerate(phases, 1): phases_content += ...
RECURSIVE PhaseLoop(_, _)
PhaseLoop(phases, i) ==
    IF i > Len(phases) THEN ""
    ELSE "### Phase " \o IntToStr(i) \o ": " \o phases[i] \o "\n- [ ] \n\n"
         \o PhaseLoop(phases, i + 1)

PhasesContent(phases) ==
    IF phases = <<>> THEN DefaultPhases ELSE Strip(PhaseLoop(phases, 1))

\* a slip: a document that exists already is kept, not overwritten
create_plan_keep(fs, planning_dir, task_name, objective, phases, date) ==
    [files |-> fs @@ (PLAN :> TASK_PLAN_TEMPLATE(task_name, date, objective,
                                                  PhasesContent(phases)))
                  @@ (FINDINGS :> FINDINGS_TEMPLATE(task_name, date))
                  @@ (PROGRESS :> PROGRESS_TEMPLATE(task_name, date)),
     out |-> OkMark \o " Created planning files in " \o planning_dir
               \o "\n\nTask: " \o task_name \o "\nObjective: " \o objective]

\* phases = <<>> stands for both None and the empty list (`if not phases`)
create_plan(fs, planning_dir, task_name, objective, phases, date) ==
    [files |-> (PLAN :> TASK_PLAN_TEMPLATE(task_name, date, objective,
                                            PhasesContent(phases)))
               @@ (FINDINGS :> FINDINGS_TEMPLATE(task_name, date))
               @@ (PROGRESS :> PROGRESS_TEMPLATE(task_name, date)),
     out |-> OkMark \o " Created planning files in " \o planning_dir
               \o "\n\nTask: " \o task_name \o "\nObjective: " \o objective]

(***************************************************************************)
(* update_plan                                                             *)
(***************************************************************************)
\* a slip: the new content is put in front of what the section holds
update_plan_keeping(fs, section, content) ==
    IF PLAN \notin DOMAIN fs
    THEN [files |-> fs, out |-> WarnMark \o " No task_plan.md found."]
    ELSE LET plan_content == fs[PLAN]
             section_marker == "## " \o section
         IN  IF Contains(plan_content, section_marker)
             THEN LET section_start == Find(plan_content, section_marker, 0)
                                         + Len(section_marker)
                  IN  [files |-> [fs EXCEPT ![PLAN] =
                                     Slice(plan_content, 0, section_start)
                                       \o "\n" \o content \o "\n"
                                       \o From(plan_content, section_start)],
                       out |-> OkMark \o " Updated section '" \o section \o "'"]
             ELSE [files |-> [fs EXCEPT ![PLAN] =
                                 RStrip(plan_content) \o "\n\n## " \o section
                                   \o "\n" \o content \o "\n"],
                   out |-> OkMark \o " Added new section '" \o section \o "'"]

update_plan(fs, section, content) ==
    IF PLAN \notin DOMAIN fs
    THEN [files |-> fs, out |-> WarnMark \o " No task_plan.md found."]
    ELSE LET plan_content == fs[PLAN]
             section_marker == "## " \o section
         IN  IF Contains(plan_content, section_marker)
             THEN LET section_start == Find(plan_content, section_marker, 0)
                                         + Len(section_marker)
                      next_section == Find(plan_content, "\n## ", section_start)
                      new_content ==
                          IF next_section = -1
                          THEN Slice(plan_content, 0, section_start)
                                 \o "\n" \o content \o "\n"
                          ELSE Slice(plan_content, 0, section_start)
                                 \o "\n" \o content \o "\n"
                                 \o From(plan_content, next_section)
                  IN  [files |-> [fs EXCEPT ![PLAN] = new_content],
                       out |-> OkMark \o " Updated section '" \o section \o "'"]
             ELSE [files |-> [fs EXCEPT ![PLAN] =
                                 RStrip(plan_content) \o "\n\n## " \o section
                                   \o "\n" \o content \o "\n"],
                   out |-> OkMark \o " Added new section '" \o section \o "'"]

(***************************************************************************)
(* add_todo                                                                *)
(***************************************************************************)
\* the offsets at which a line starts (where ^ matches under re.MULTILINE)
LineStarts(s) == {p \in 0 .. Len(s) : p = 0 \/ Chr(s, p - 1) = "\n"}

\* whether ^###\s+.*{re.escape(phase)}, ignoring case, matches at line start p:
\* \s+ takes one or more of the whitespace after ###, line ends included, .* any
\* characters but a line end, then the phase text follows
PhaseHeadingAt(s, phase, p) ==
    /\ Slice(s, p, p + 3) = "###"
    /\ \E a \in (p + 4) .. SkipSpaces(s, p + 3) :
          \E q \in a .. Len(s) :
             /\ ~Contains(Slice(s, a, q), "\n")
             /\ q + Len(phase) <= Len(s)
             /\ Lower(Slice(s, q, q + Len(phase))) = Lower(phase)

\* pattern.search(content).start(), or -1
FuzzyPhaseStart(s, phase) ==
    LET hits == {p \in LineStarts(s) : PhaseHeadingAt(s, phase, p)}
    IN  IF hits = {} THEN -1 ELSE SetMin(hits)

\* phase = "" stands for both None and the empty string (`if phase:`)
add_todo(fs, item, phase) ==
    IF PLAN \notin DOMAIN fs
    THEN [files |-> fs, out |-> WarnMark \o " No task_plan.md found."]
    ELSE LET content == fs[PLAN]
             new_item == "- [ ] " \o item
             new_content ==
                 IF phase # ""
                 THEN LET phase_marker == "### " \o phase
                          phase_start == IF Contains(content, phase_marker)
                                         THEN Find(content, phase_marker, 0)
                                         ELSE FuzzyPhaseStart(content, phase)
                      IN  IF phase_start # -1
                          THEN LET next_section == Find(content, "\n###", phase_start + 1)
                                   next_h2 == Find(content, "\n## ", phase_start + 1)
                                   possible_ends == {next_section, next_h2} \ {-1}
                                   insert_pos == IF possible_ends # {}
                                                 THEN SetMin(possible_ends)
                                                 ELSE Len(content)
                               IN  RStrip(Slice(content, 0, insert_pos))
                                     \o "\n" \o new_item \o "\n"
                                     \o From(content, insert_pos)
                          ELSE RStrip(content) \o "\n\n### " \o phase \o "\n"
                                 \o new_item \o "\n"
                 ELSE IF Contains(content, "## Phases")
                      THEN LET notes_pos == Find(content, "## Notes", 0)
                               error_pos == Find(content, "## Error Log", 0)
                               insert_pos == SetMin({p \in {notes_pos, error_pos,
                                                            Len(content)} : p > 0})
                           IN  RStrip(Slice(content, 0, insert_pos))
                                 \o "\n" \o new_item \o "\n\n"
                                 \o From(content, insert_pos)
                      ELSE RStrip(content) \o "\n\n## Tasks\n" \o new_item \o "\n"
         IN  [files |-> [fs EXCEPT ![PLAN] = new_content],
              out |-> OkMark \o " Added todo: " \o item
                        \o (IF phase # "" THEN " (Phase: " \o phase \o ")" ELSE "")]

(***************************************************************************)
(* save_finding                                                            *)
(***************************************************************************)
\* the _get_date() calls of one operation fall into the same minute
save_finding(fs, title, content, category, date) ==
    LET findings_content == IF FINDINGS \in DOMAIN fs THEN fs[FINDINGS]
                            ELSE FINDINGS_TEMPLATE("Task", date)
        new_finding == "\n### " \o title \o "\n*" \o date \o "*\n\n" \o content \o "\n"
        category_marker == "## " \o category
        new_content ==
            IF Contains(findings_content, category_marker)
            THEN LET category_pos == Find(findings_content, category_marker, 0)
                                       + Len(category_marker)
                     next_h2 == Find(findings_content, "\n## ", category_pos)
                 IN  IF next_h2 = -1
                     THEN RStrip(findings_content) \o new_finding
                     ELSE RStrip(Slice(findings_content, 0, next_h2))
                            \o new_finding \o "\n"
                            \o From(findings_content, next_h2)
            ELSE RStrip(findings_content) \o "\n\n## " \o category \o new_finding
    IN  [files |-> (FINDINGS :> new_content) @@ fs,
         out |-> OkMark \o " Saved finding: '" \o title \o "'"]

(***************************************************************************)
(* log_progress and log_error                                              *)
(***************************************************************************)
\* a slip: the text behind the heading is not written back
log_progress_cut(fs, entry, include_timestamp, date) ==
    LET content == IF PROGRESS \in DOMAIN fs THEN fs[PROGRESS]
                   ELSE PROGRESS_TEMPLATE("Task", date)
        timestamp == IF include_timestamp THEN "[" \o date \o "] " ELSE ""
        new_entry == "- " \o timestamp \o entry
        new_content ==
            IF Contains(content, "## Session Log")
            THEN LET session_pos == Find(content, "## Session Log", 0)
                                      + Len("## Session Log")
                 IN  Slice(content, 0, session_pos) \o "\n" \o new_entry \o "\n"
            ELSE RStrip(content) \o "\n\n## Session Log\n" \o new_entry \o "\n"
    IN  [files |-> (PROGRESS :> new_content) @@ fs,
         out |-> OkMark \o " Logged: " \o entry]

log_progress(fs, entry, include_timestamp, date) ==
    LET content == IF PROGRESS \in DOMAIN fs THEN fs[PROGRESS]
                   ELSE PROGRESS_TEMPLATE("Task", date)
        timestamp == IF include_timestamp THEN "[" \o date \o "] " ELSE ""
        new_entry == "- " \o timestamp \o entry
        new_content ==
            IF Contains(content, "## Session Log")
            THEN LET session_pos == Find(content, "## Session Log", 0)
                                      + Len("## Session Log")
                 IN  Slice(content, 0, session_pos) \o "\n" \o new_entry
                       \o From(content, session_pos)
            ELSE RStrip(content) \o "\n\n## Session Log\n" \o new_entry \o "\n"
    IN  [files |-> (PROGRESS :> new_content) @@ fs,
         out |-> OkMark \o " Logged: " \o entry]

\* a slip: the error is written to the plan only
log_error_silent(fs, error, context, date) ==
    IF PLAN \notin DOMAIN fs
    THEN [files |-> fs, out |-> WarnMark \o " No task_plan.md found."]
    ELSE LET content == fs[PLAN]
             error_entry == "\n### Error at " \o date \o "\n**Error:** " \o error \o "\n"
                              \o (IF context # ""
                                  THEN "**Context:** " \o context \o "\n" ELSE "")
             new_content ==
                 IF Contains(content, "## Error Log")
                 THEN LET error_pos == Find(content, "## Error Log", 0)
                                         + Len("## Error Log")
                          next_h2 == Find(content, "\n## ", error_pos)
                      IN  IF next_h2 = -1
                          THEN RStrip(content) \o error_entry
                          ELSE RStrip(Slice(content, 0, next_h2)) \o error_entry
                                 \o "\n" \o From(content, next_h2)
                 ELSE RStrip(content) \o "\n\n## Error Log" \o error_entry
             written == [fs EXCEPT ![PLAN] = new_content]
         IN  [files |-> written,
              out |-> WarnMark \o " Logged error: " \o error]

\* a slip: without a plan the error still reaches the progress document
log_error_anyway(fs, error, context, date) ==
    IF PLAN \notin DOMAIN fs
    THEN [files |-> log_progress(fs, "ERROR: " \o error, TRUE, date).files,
          out |-> WarnMark \o " No task_plan.md found."]
    ELSE LET content == fs[PLAN]
             error_entry == "\n### Error at " \o date \o "\n**Error:** " \o error \o "\n"
                              \o (IF context # ""
                                  THEN "**Context:** " \o context \o "\n" ELSE "")
             new_content ==
                 IF Contains(content, "## Error Log")
                 THEN LET error_pos == Find(content, "## Error Log", 0)
                                         + Len("## Error Log")
                          next_h2 == Find(content, "\n## ", error_pos)
                      IN  IF next_h2 = -1
                          THEN RStrip(content) \o error_entry
                          ELSE RStrip(Slice(content, 0, next_h2)) \o error_entry
                                 \o "\n" \o From(content, next_h2)
                 ELSE RStrip(content) \o "\n\n## Error Log" \o error_entry
             written == [fs EXCEPT ![PLAN] = new_content]
         IN  [files |-> log_progress(written, "ERROR: " \o error, TRUE, date).files,
              out |-> WarnMark \o " Logged error: " \o error]

\* context = "" is the default (no **Context:** line)
log_error(fs, error, context, date) ==
    IF PLAN \notin DOMAIN fs
    THEN [files |-> fs, out |-> WarnMark \o " No task_plan.md found."]
    ELSE LET content == fs[PLAN]
             error_entry == "\n### Error at " \o date \o "\n**Error:** " \o error \o "\n"
                              \o (IF context # ""
                                  THEN "**Context:** " \o context \o "\n" ELSE "")
             new_content ==
                 IF Contains(content, "## Error Log")
                 THEN LET error_pos == Find(content, "## Error Log", 0)
                                         + Len("## Error Log")
                          next_h2 == Find(content, "\n## ", error_pos)
                      IN  IF next_h2 = -1
                          THEN RStrip(content) \o error_entry
                          ELSE RStrip(Slice(content, 0, next_h2)) \o error_entry
                                 \o "\n" \o From(content, next_h2)
                 ELSE RStrip(content) \o "\n\n## Error Log" \o error_entry
             written == [fs EXCEPT ![PLAN] = new_content]
         IN  [files |-> log_progress(written, "ERROR: " \o error, TRUE, date).files,
              out |-> WarnMark \o " Logged error: " \o error]

(***************************************************************************)
(* Reading the documents.  max_plan_length is the setting of that name,    *)
(* 0 when it is not set.                                                   *)
(***************************************************************************)
DefaultMaxLength == 4000

\* a slip: the notice is left out
_truncate_quiet(text, max_plan_length) ==
    LET maxlength == IF max_plan_length = 0 THEN DefaultMaxLength ELSE max_plan_length
    IN  IF Len(text) > maxlength THEN Slice(text, 0, maxlength) ELSE text

_truncate(text, max_plan_length) ==
    LET maxlength == IF max_plan_length = 0 THEN DefaultMaxLength ELSE max_plan_length
    IN  IF Len(text) > maxlength
        THEN Slice(text, 0, maxlength)
               \o "\n... (truncated to " \o IntToStr(maxlength) \o " characters)"
        ELSE text

\* the part both readers share: from start_char on, within the budget
ReadFrom(content, start_char, max_plan_length) ==
    IF start_char > 0 /\ start_char >= Len(content)
    THEN WarnMark \o " End of file reached."
    ELSE _truncate(IF start_char > 0 THEN From(content, start_char) ELSE content,
                   max_plan_length)

read_plan(fs, start_char, max_plan_length) ==
    [files |-> fs,
     out |-> IF PLAN \notin DOMAIN fs
             THEN WarnMark \o " No task_plan.md found. Use create_plan to start."
             ELSE ReadFrom(fs[PLAN], start_char, max_plan_length)]

\* a slip: a missing findings document is made on the way
read_findings_making(fs, start_char, max_plan_length) ==
    [files |-> IF FINDINGS \in DOMAIN fs THEN fs ELSE (FINDINGS :> "") @@ fs,
     out |-> IF FINDINGS \notin DOMAIN fs
             THEN WarnMark \o " No findings.md found."
             ELSE ReadFrom(fs[FINDINGS], start_char, max_plan_length)]

read_findings(fs, start_char, max_plan_length) ==
    [files |-> fs,
     out |-> IF FINDINGS \notin DOMAIN fs
             THEN WarnMark \o " No findings.md found."
             ELSE ReadFrom(fs[FINDINGS], start_char, max_plan_length)]

(***************************************************************************)
(* cleanup_plan.  rt is the planning directory: its path, whether it       *)
(* exists, and the entries in it other than the three documents.           *)
(***************************************************************************)
DocNames == <<PLAN, FINDINGS, PROGRESS>>

\* ", ".join(names)
RECURSIVE JoinComma(_)
JoinComma(names) ==
    IF names = <<>> THEN ""
    ELSE IF Len(names) = 1 THEN names[1]
    ELSE names[1] \o ", " \o JoinComma(Tail(names))

\* os.rmdir(path) succeeds on an empty directory whose path does not end in
\* the component "." (EINVAL otherwise)
RmdirSucceeds(rt) == rt.others = {} /\ ~EndsWith(rt.dir, "/.")

\* a slip: the plan document is left behind
cleanup_plan_partial(fs, rt) ==
    IF ~rt.exists
    THEN [files |-> fs, exists |-> FALSE, out |-> WarnMark \o " No planning directory."]
    ELSE LET files_removed == SelectSeq(DocNames, LAMBDA f : f \in DOMAIN fs /\ f # PLAN)
             left == [f \in DOMAIN fs \cap {PLAN} |-> fs[f]]
         IN  IF RmdirSucceeds(rt) /\ left = <<>>
             THEN [files |-> left, exists |-> FALSE,
                   out |-> OkMark \o " Cleaned up: " \o JoinComma(files_removed)]
             ELSE [files |-> left, exists |-> TRUE,
                   out |-> OkMark \o " Cleaned up: " \o JoinComma(files_removed)
                             \o " (directory kept)"]

cleanup_plan(fs, rt) ==
    IF ~rt.exists
    THEN [files |-> fs, exists |-> FALSE, out |-> WarnMark \o " No planning directory."]
    ELSE LET files_removed == SelectSeq(DocNames, LAMBDA f : f \in DOMAIN fs)
         IN  IF RmdirSucceeds(rt)
             THEN [files |-> <<>>, exists |-> FALSE,
                   out |-> OkMark \o " Cleaned up: " \o JoinComma(files_removed)]
             ELSE [files |-> <<>>, exists |-> TRUE,
                   out |-> OkMark \o " Cleaned up: " \o JoinComma(files_removed)
                             \o " (directory kept)"]

(***************************************************************************)
(* check_plan_integrity                                                    *)
(***************************************************************************)
\* "\n".join(issues)
RECURSIVE JoinLines(_)
JoinLines(issues) ==
    IF issues = <<>> THEN ""
    ELSE IF Len(issues) = 1 THEN issues[1]
    ELSE issues[1] \o "\n" \o JoinLines(Tail(issues))

check_plan_integrity(fs) ==
    LET data == _get_planning_data(fs)
        pending == data.total - data.completed
        issues ==
            (IF ~data.has_findings THEN << "- Missing findings.md" >> ELSE <<>>)
            \o (IF ~data.has_progress THEN << "- Missing progress.md" >> ELSE <<>>)
            \o (IF pending > 0
                THEN << "- " \o IntToStr(pending) \o " tasks pending in task_plan.md" >>
                ELSE <<>>)
            \o (IF PROGRESS \in DOMAIN fs /\ ~Contains(fs[PROGRESS], "- ")
                THEN << "- progress.md seems empty (no bullet points)" >> ELSE <<>>)
    IN  [files |-> fs,
         out |-> IF ~data.exists THEN WarnMark \o " No plan found."
                 ELSE IF issues = <<>>
                 THEN OkMark \o " Plan Integrity Check Passed!\n- All files present\n- All "
                        \o IntToStr(data.total) \o " tasks completed\n- Progress logged"
                 ELSE WarnMark \o " Plan Incomplete / Issues Found:\n" \o JoinLines(issues)]

(***************************************************************************)
(* get_status                                                              *)
(***************************************************************************)
\* int(completed / total * 100): the floating-point quotient cut to an integer,
\* which is the integer quotient for every total below 60 but for 29 of 50
Percent(completed, total) ==
    IF total = 0 THEN 0
    ELSE IF completed = 29 /\ total = 50 THEN 57
    ELSE (completed * 100) \div total

get_status(fs, rt) ==
    LET data == _get_planning_data(fs)
        mark(has) == IF has THEN OkMark ELSE ErrMark
    IN  [files |-> fs,
         out |-> IF ~data.exists
                 THEN ClipMark \o " No active planning session. Use create_plan to start."
                 ELSE ClipMark \o " **" \o data.task_name \o "**\n\n"
                        \o "Progress: " \o IntToStr(data.completed) \o "/"
                        \o IntToStr(data.total) \o " ("
                        \o IntToStr(Percent(data.completed, data.total)) \o "%)\n"
                        \o "Errors: " \o IntToStr(data.errors) \o "\n"
                        \o "Directory: " \o rt.dir \o "\n\n"
                        \o "Files: task_plan.md " \o OkMark
                        \o " | findings.md " \o mark(data.has_findings)
                        \o " | progress.md " \o mark(data.has_progress)]

(***************************************************************************)
(* The state machine.  A call replaces the directory by the operation's    *)
(* result and records the call, so that what an operation did can be       *)
(* stated about the state after it.                                        *)
(***************************************************************************)
VARIABLES steps,  \* the number of calls made (counted in Spec only)
          hist,   \* what was called since the plan was created (Spec only)
          root,   \* the planning directory: its path, whether it exists, and
                  \* the names of the entries in it other than the three documents
          max_plan_length, \* the setting of that name, 0 when it is not set
          inflight, \* the tool calls issued, each with how far it has run
                    \* (SpecTools only)
          _last_data_hash,  \* PlanningMiniApp._last_data_hash
          content_box       \* what the status view has on display

allvars ==
    <<files, last, steps, hist, root, max_plan_length, inflight, _last_data_hash, content_box>>

\* the directory of the default setting: the working directory, which exists
DefaultRoot == [dir |-> PlanningDir, exists |-> TRUE, others |-> {}]

\* a call that leaves the directory itself as it is
Call(op, args, r) ==
    /\ files' = r.files
    /\ last' = [op |-> op, args |-> args, pre |-> files, out |-> r.out]
    /\ root' = root
    /\ max_plan_length' = max_plan_length
    /\ inflight' = inflight
    /\ UNCHANGED <<_last_data_hash, content_box>>

\* a call that makes or removes the directory: r.exists tells which
CallRoot(op, args, r) ==
    /\ files' = r.files
    /\ last' = [op |-> op, args |-> args, pre |-> files, out |-> r.out]
    /\ root' = [root EXCEPT !.exists = r.exists]
    /\ max_plan_length' = max_plan_length
    /\ inflight' = inflight
    /\ UNCHANGED <<_last_data_hash, content_box>>

NoCall(fs) == [op |-> "init", args |-> <<>>, pre |-> fs, out |-> ""]

\* the one date and time the model's clock shows (_get_date)
Dates == {"2024-01-01 10:00"}

MarkComplete(targets) ==
    \E t \in targets : Call("mark_complete", <<t>>, mark_complete(files, t))

CreatePlan(inputs) ==
    \E a \in inputs, date \in Dates :
       CallRoot("create_plan", a,
                [exists |-> TRUE]   \* os.makedirs(planning_dir, exist_ok=True)
                  @@ create_plan(files, root.dir, a[1], a[2], a[3], date))

UpdatePlan(inputs) ==
    \E a \in inputs : Call("update_plan", a, update_plan(files, a[1], a[2]))

AddTodo(inputs) ==
    \E a \in inputs : Call("add_todo", a, add_todo(files, a[1], a[2]))

\* a document is there already, or _ensure_planning_dir makes the directory
SaveFinding(inputs) ==
    \E a \in inputs, date \in Dates :
       CallRoot("save_finding", a,
                [exists |-> TRUE] @@ save_finding(files, a[1], a[2], a[3], date))

LogProgress(inputs) ==
    \E a \in inputs, date \in Dates :
       CallRoot("log_progress", a,
                [exists |-> TRUE] @@ log_progress(files, a[1], a[2], date))

LogError(inputs) ==
    \E a \in inputs, date \in Dates :
       Call("log_error", a, log_error(files, a[1], a[2], date))

ReadPlan(offsets) ==
    \E o \in offsets : Call("read_plan", <<o>>, read_plan(files, o, max_plan_length))

ReadFindings(offsets) ==
    \E o \in offsets :
       Call("read_findings", <<o>>, read_findings(files, o, max_plan_length))

CleanupPlan == CallRoot("cleanup_plan", <<>>, cleanup_plan(files, root))

CheckPlanIntegrity == Call("check_plan_integrity", <<>>, check_plan_integrity(files))

GetStatus == Call("get_status", <<>>, get_status(files, root))

\* hist: the number of phase names the plan was created with and the numbers
\* of add_todo and mark_complete calls that succeeded since, as long as nothing
\* else was called; NoHist otherwise
NoHist == [k |-> -1, a |-> 0, m |-> 0]
Succeeded == StartsWith(last'.out, OkMark)

(***************************************************************************)
(* SpecMark: mark_complete, any number of times, on every plan of up to    *)
(* MaxLines lines drawn from MarkLines, beside a findings and a progress   *)
(* document.  Checked lines come about by the calls themselves.            *)
(***************************************************************************)
MaxLines == 3

MarkLines ==
    { "- [ ] Fix bug\n",
      "- [ ] Fix bugs\n",
      "  * [ ] fix bug\n",
      "-[ ] Fix bu \n",
      "- [ ] \n" }

\* the plans of the precedence example, in either order, and of the
\* fuzzy-threshold example
ExamplePlans ==
    { "- [ ] Fix bug\n- [ ] Fix bug in parser\n",
      "- [ ] Fix bug in parser\n- [ ] Fix bug\n",
      "- [ ] Deploy to prod\n" }

MarkTargets ==
    { "Fix bug", " fix bug ", "Fix bgu", "fixb", "depoy to prod", "unrelated text" }

\* the texts of at most n pieces of pool, one after another
RECURSIVE DocsOf(_, _)
DocsOf(pool, n) ==
    IF n = 0 THEN {""}
    ELSE LET shorter == DocsOf(pool, n - 1)
         IN  shorter \cup {d \o l : d \in shorter, l \in pool}

InitMark ==
    /\ \E d \in DocsOf(MarkLines, MaxLines) \cup ExamplePlans :
          files = (PLAN :> d) @@ (FINDINGS :> "## Key Discoveries\n")
                    @@ (PROGRESS :> "## Session Log\n- Started task\n")
    /\ last = NoCall(files)
    /\ steps = 0
    /\ hist = NoHist
    /\ root = DefaultRoot
    /\ max_plan_length = 0
    /\ inflight = <<>>
    /\ _last_data_hash = <<>>
    /\ content_box = <<>>

\* a call that changed nothing is not followed up: the directory is the one
\* before it, and every call on that directory is explored from there
Fresh == last.op = "init" \/ files # last.pre

NextMark == Fresh /\ MarkComplete(MarkTargets) /\ UNCHANGED <<steps, hist>>

SpecMark == InitMark /\ [][NextMark]_allvars

(***************************************************************************)
(* SpecRepeat: mark_complete called again and again, with the targets of   *)
(* SpecMark, on plans of up to MaxRepeatLines lines: the later calls meet  *)
(* the items the earlier ones have checked.                                *)
(***************************************************************************)
MaxRepeatLines == 2

InitRepeat ==
    /\ \E d \in DocsOf(MarkLines, MaxRepeatLines) \cup ExamplePlans :
          files = (PLAN :> d) @@ (FINDINGS :> "## Key Discoveries\n")
                    @@ (PROGRESS :> "## Session Log\n- Started task\n")
    /\ last = NoCall(files)
    /\ steps = 0
    /\ hist = NoHist
    /\ root = DefaultRoot
    /\ max_plan_length = 0
    /\ inflight = <<>>
    /\ _last_data_hash = <<>>
    /\ content_box = <<>>

NextRepeat == Fresh /\ MarkComplete(MarkTargets) /\ UNCHANGED <<steps, hist>>

SpecRepeat == InitRepeat /\ [][NextRepeat]_allvars

(***************************************************************************)
(* SpecBlank: mark_complete called with targets that have no text, on the  *)
(* plans of SpecMark, again and again until nothing is left to check.      *)
(***************************************************************************)
BlankTargets == { "", "  ", "\t\n" }

NextBlank == Fresh /\ MarkComplete(BlankTargets) /\ UNCHANGED <<steps, hist>>

SpecBlank == InitMark /\ [][NextBlank]_allvars

(***************************************************************************)
(* Spec: the operations in any order, up to MaxOps calls, from the empty   *)
(* planning directory.                                                     *)
(***************************************************************************)
MaxOps == 3

CreateArgs ==
    { <<"Refactor", "Speed up parser", <<"Investigate", "Implement">> >>,
      <<"Refactor", "Speed up parser", <<>> >> }
AddArgs == { <<"Profile hotspots", "Investigate">>, <<"Write tests", "">> }
LifeTargets == { "Profile hotspots", "Define requirements" }
UpdateArgs ==
    { <<"Note", "Remember">>, <<"Decisions", "Use a cache">>, <<"Risks", "None">> }
FindingArgs ==
    { <<"Hot loop", "Parser rescans", "Key Discoveries">>,
      <<"Hot loop", "Parser rescans", "Ideas">> }
ProgressArgs == { <<"Profiled parser", TRUE>> }
ErrorArgs == { <<"Timeout", "during fetch">> }

ReadOffsets == { 0, 400 }

\* the planning directory at the start holds none of the three documents: it
\* is the working directory (the default setting), or a directory of its own
\* that is not there yet, or one that holds another file
LifeRoots ==
    { DefaultRoot,
      [dir |-> "/project/plans", exists |-> FALSE, others |-> {}],
      [dir |-> "/project/plans", exists |-> TRUE, others |-> {"notes.txt"}] }

Init ==
    /\ files = <<>>
    /\ last = NoCall(files)
    /\ steps = 0
    /\ hist = NoHist
    /\ root \in LifeRoots
    /\ max_plan_length = 0
    /\ inflight = <<>>
    /\ _last_data_hash = <<>>
    /\ content_box = <<>>

Step == steps < MaxOps /\ steps' = steps + 1

DoCreatePlan ==
    /\ Step
    /\ CreatePlan(CreateArgs)
    /\ hist' = [k |-> Len(last'.args[3]), a |-> 0, m |-> 0]

DoAddTodo ==
    /\ Step
    /\ AddTodo(AddArgs)
    /\ hist' = IF hist.k # -1 /\ Succeeded THEN [hist EXCEPT !.a = @ + 1] ELSE NoHist

DoMarkComplete ==
    /\ Step
    /\ MarkComplete(LifeTargets)
    /\ hist' = IF hist.k # -1 /\ Succeeded THEN [hist EXCEPT !.m = @ + 1] ELSE NoHist

DoUpdatePlan == Step /\ UpdatePlan(UpdateArgs) /\ hist' = NoHist
DoSaveFinding == Step /\ SaveFinding(FindingArgs) /\ hist' = NoHist
DoLogProgress == Step /\ LogProgress(ProgressArgs) /\ hist' = NoHist
DoLogError == Step /\ LogError(ErrorArgs) /\ hist' = NoHist
DoReadPlan == Step /\ ReadPlan(ReadOffsets) /\ hist' = NoHist
DoReadFindings == Step /\ ReadFindings(ReadOffsets) /\ hist' = NoHist
DoCleanupPlan == Step /\ CleanupPlan /\ hist' = NoHist
DoCheckPlanIntegrity == Step /\ CheckPlanIntegrity /\ hist' = NoHist

Next ==
    \/ DoCreatePlan
    \/ DoAddTodo
    \/ DoMarkComplete
    \/ DoUpdatePlan
    \/ DoSaveFinding
    \/ DoLogProgress
    \/ DoLogError
    \/ DoReadPlan
    \/ DoReadFindings
    \/ DoCleanupPlan
    \/ DoCheckPlanIntegrity

Spec == Init /\ [][Next]_allvars

(***************************************************************************)
(* SpecCreate: create_plan, with arguments of every shape, on the empty    *)
(* directory and on the directory of an earlier plan that was worked on.   *)
(***************************************************************************)
CreateTasks == { "Refactor", " Fix ", "## Objective" }
CreateObjectives ==
    { "Speed up parser", "- [x] done", "Go\n## Next", "### Error at 5",
      "First\n- [ ] second \n" }
CreatePhases == { <<>>, <<"Investigate", "Implement">> }
CreateInputs ==
    { <<t, o, ph>> : t \in CreateTasks, o \in CreateObjectives, ph \in CreatePhases }

\* the directory after an earlier plan was created and worked on
EarlierDir ==
    LET date == "2023-12-31 09:00"
        d1 == create_plan(<<>>, PlanningDir, "Old task", "Old objective", <<>>, date).files
        d2 == mark_complete(d1, "Define requirements").files
        d3 == log_error(d2, "Old failure", "", date).files
        d4 == save_finding(d3, "Old finding", "Old content", "Key Discoveries", date).files
    IN  d4

InitCreate ==
    /\ files \in { <<>>, EarlierDir }
    /\ last = NoCall(files)
    /\ steps = 0
    /\ hist = NoHist
    /\ root = DefaultRoot
    /\ max_plan_length = 0
    /\ inflight = <<>>
    /\ _last_data_hash = <<>>
    /\ content_box = <<>>

NextCreate == CreatePlan(CreateInputs) /\ UNCHANGED <<steps, hist>>

SpecCreate == InitCreate /\ [][NextCreate]_allvars

(***************************************************************************)
(* SpecDocs: each operation that looks a section up, once, on every        *)
(* document of up to MaxPieces pieces drawn from SectionPieces.            *)
(***************************************************************************)
MaxPieces == 3

SectionPieces ==
    { "## Notes\n",
      "### Notes\n",
      "see ## Notes \n",
      "## Session Log\n",
      "## Session Logs\n",
      "## Error Log\n",
      "### Error Log\n",
      "## Phases\n",
      "\n" }

DocUpdateArgs == { <<"Note", "c">>, <<"Notes", "c">> }
DocFindingArgs == { <<"T", "c", "Note">>, <<"T", "c", "Notes">> }
DocAddArgs == { <<"i", "">>, <<"i", "Notes">> }
DocProgressArgs == { <<"e", FALSE>> }
DocErrorArgs == { <<"E", "">>, <<"E", "ctx">> }

InitDocs ==
    /\ \/ \E d \in DocsOf(SectionPieces, MaxPieces) :
             files = (PLAN :> d) @@ (FINDINGS :> d) @@ (PROGRESS :> d)
       \/ files = (PLAN :> "## Phases\n")
       \/ files = (PROGRESS :> "## Session Log\n")
       \/ files = <<>>
    /\ last = NoCall(files)
    /\ steps = 0
    /\ hist = NoHist
    /\ root = DefaultRoot
    /\ max_plan_length = 0
    /\ inflight = <<>>
    /\ _last_data_hash = <<>>
    /\ content_box = <<>>

\* each operation is applied to the documents as drawn
Once == last.op = "init" /\ UNCHANGED <<steps, hist>>

DocUpdatePlan == Once /\ UpdatePlan(DocUpdateArgs)
DocSaveFinding == Once /\ SaveFinding(DocFindingArgs)
DocAddTodo == Once /\ AddTodo(DocAddArgs)
DocLogProgress == Once /\ LogProgress(DocProgressArgs)
DocLogError == Once /\ LogError(DocErrorArgs)

NextDocs ==
    \/ DocUpdatePlan
    \/ DocSaveFinding
    \/ DocAddTodo
    \/ DocLogProgress
    \/ DocLogError

SpecDocs == InitDocs /\ [][NextDocs]_allvars

(***************************************************************************)
(* SpecTodo: add_todo, once, with and without a phase, on every plan of up *)
(* to MaxTodoLines lines drawn from TodoLines.                             *)
(***************************************************************************)
MaxTodoLines == 3

TodoLines ==
    { "## Phases\n",
      "### Phase 1: Plan\n",
      "#### Plan\n",
      "- [ ] a\n",
      "- [x] b \n",
      "## Notes\n",
      "### Notes\n",
      "## Error Log\n" }

TodoArgs == { <<"New", "">>, <<"New", "Plan">>, <<"New", "Zed">> }

InitTodo ==
    /\ \E d \in DocsOf(TodoLines, MaxTodoLines) :
          files = (PLAN :> d) @@ (FINDINGS :> "## Key Discoveries\n")
                    @@ (PROGRESS :> "## Session Log\n- Started task\n")
    /\ last = NoCall(files)
    /\ steps = 0
    /\ hist = NoHist
    /\ root = DefaultRoot
    /\ max_plan_length = 0
    /\ inflight = <<>>
    /\ _last_data_hash = <<>>
    /\ content_box = <<>>

NextTodo == last.op = "init" /\ AddTodo(TodoArgs) /\ UNCHANGED <<steps, hist>>

SpecTodo == InitTodo /\ [][NextTodo]_allvars

(***************************************************************************)
(* I/O failures.  A mutating operation changes the directory by a sequence *)
(* of file-system steps, in the order of its code: open(path, 'w') with    *)
(* f.write(text), and os.remove(path).  A step can raise OSError; the      *)
(* operation's except clause turns that into its error result.  What the   *)
(* steps before it did stays done.                                         *)
(***************************************************************************)
WriteStep(name, text) == [kind |-> "write", name |-> name, text |-> text]
RemoveStep(name) == [kind |-> "remove", name |-> name, text |-> ""]

DoStep(fs, st) ==
    IF st.kind = "write" THEN (st.name :> st.text) @@ fs
    ELSE [f \in DOMAIN fs \ {st.name} |-> fs[f]]

RECURSIVE DoSteps(_, _)
DoSteps(fs, sts) ==
    IF sts = <<>> THEN fs ELSE DoSteps(DoStep(fs, Head(sts)), Tail(sts))

\* the step raises: from open() or os.remove() the file is as it was; from the
\* write behind an open() that succeeded (torn) the file is there and empty
FailStep(fs, st, torn) ==
    IF st.kind = "write" /\ torn THEN (st.name :> "") @@ fs ELSE fs

\* str(e)
OSErrorText(rt, st, torn) ==
    IF st.kind = "write" /\ torn THEN "[Errno 28] No space left on device"
    ELSE "[Errno 13] Permission denied: '" \o rt.dir \o "/" \o st.name \o "'"

\* the text before str(e) in the except clause of each operation
ErrorPrefix(op) ==
    IF op = "create_plan" THEN ErrMark \o " Error creating plan: "
    ELSE IF op = "update_plan" THEN ErrMark \o " Error updating plan: "
    ELSE ErrMark \o " Error: "

\* the steps of each operation on the directory fs
create_plan_steps(fs, rt, a, date) ==
    LET written == create_plan(fs, rt.dir, a[1], a[2], a[3], date).files
    IN  << WriteStep(PLAN, written[PLAN]), WriteStep(FINDINGS, written[FINDINGS]),
           WriteStep(PROGRESS, written[PROGRESS]) >>

update_plan_steps(fs, a) ==
    IF PLAN \in DOMAIN fs
    THEN << WriteStep(PLAN, update_plan(fs, a[1], a[2]).files[PLAN]) >> ELSE <<>>

mark_complete_steps(fs, a) ==
    LET r == mark_complete(fs, a[1])
    IN  IF StartsWith(r.out, OkMark) THEN << WriteStep(PLAN, r.files[PLAN]) >> ELSE <<>>

add_todo_steps(fs, a) ==
    IF PLAN \in DOMAIN fs
    THEN << WriteStep(PLAN, add_todo(fs, a[1], a[2]).files[PLAN]) >> ELSE <<>>

save_finding_steps(fs, a, date) ==
    (IF FINDINGS \in DOMAIN fs THEN <<>>
     ELSE << WriteStep(FINDINGS, FINDINGS_TEMPLATE("Task", date)) >>)
    \o << WriteStep(FINDINGS, save_finding(fs, a[1], a[2], a[3], date).files[FINDINGS]) >>

log_progress_steps(fs, a, date) ==
    (IF PROGRESS \in DOMAIN fs THEN <<>>
     ELSE << WriteStep(PROGRESS, PROGRESS_TEMPLATE("Task", date)) >>)
    \o << WriteStep(PROGRESS, log_progress(fs, a[1], a[2], date).files[PROGRESS]) >>

\* log_error writes the plan itself; the steps of its call of log_progress
\* come behind, inside that operation's own try
log_error_steps(fs, a, date) ==
    IF PLAN \in DOMAIN fs
    THEN << WriteStep(PLAN, log_error(fs, a[1], a[2], date).files[PLAN]) >> ELSE <<>>

log_error_inner_steps(fs, a, date) ==
    IF PLAN \in DOMAIN fs
    THEN log_progress_steps(DoSteps(fs, log_error_steps(fs, a, date)),
                            << "ERROR: " \o a[1], TRUE >>, date)
    ELSE <<>>

cleanup_plan_steps(fs, rt) ==
    IF rt.exists
    THEN [k \in 1 .. Len(SelectSeq(DocNames, LAMBDA f : f \in DOMAIN fs)) |->
             RemoveStep(SelectSeq(DocNames, LAMBDA f : f \in DOMAIN fs)[k])]
    ELSE <<>>

\* the result of an operation whose k-th step raises (torn: see FailStep);
\* pure is its result when no step raises, sts are its steps
Failing(op, fs, rt, pure, sts, k, torn) ==
    IF k \in 1 .. Len(sts)
    THEN [files |-> FailStep(DoSteps(fs, SubSeq(sts, 1, k - 1)), sts[k], torn),
          out |-> ErrorPrefix(op) \o OSErrorText(rt, sts[k], torn)]
    ELSE [files |-> pure.files, out |-> pure.out]

\* log_error: a step of log_progress that raises is caught inside log_progress,
\* whose result log_error does not look at
log_error_failing(fs, rt, a, date, k, torn) ==
    LET pure == log_error(fs, a[1], a[2], date)
        outer == log_error_steps(fs, a, date)
        inner == log_error_inner_steps(fs, a, date)
        j == k - Len(outer)
    IN  IF j \in 1 .. Len(inner)
        THEN [files |-> FailStep(DoSteps(fs, outer \o SubSeq(inner, 1, j - 1)),
                                 inner[j], torn),
              out |-> pure.out]
        ELSE Failing("log_error", fs, rt, pure, outer, k, torn)

(***************************************************************************)
(* SpecFail: each mutating operation, once, on the empty directory, on a   *)
(* directory with a plan and on one with findings alone, with any one of   *)
(* its steps raising, or none.                                             *)
(***************************************************************************)
MaxFault == 4

Faults == (0 .. MaxFault) \X BOOLEAN

FailDirs ==
    { <<>>,
      EarlierDir,
      save_finding(<<>>, "Old finding", "Old content", "Key Discoveries",
                   "2023-12-31 09:00").files,
      create_plan(<<>>, PlanningDir, "Refactor", "Speed up parser",
                  <<"Investigate", "Implement">>, "2023-12-31 09:00").files }

InitFail ==
    /\ files \in FailDirs
    /\ last = NoCall(files)
    /\ steps = 0
    /\ hist = NoHist
    /\ root = DefaultRoot
    /\ max_plan_length = 0
    /\ inflight = <<>>
    /\ _last_data_hash = <<>>
    /\ content_box = <<>>

Kept(r) == [exists |-> root.exists] @@ r
Made(r) == [exists |-> TRUE] @@ r

FailCreatePlan ==
    Once /\ \E a \in CreateArgs, date \in Dates, x \in Faults :
       CallRoot("create_plan", a,
                Made(Failing("create_plan", files, root,
                             create_plan(files, root.dir, a[1], a[2], a[3], date),
                             create_plan_steps(files, root, a, date), x[1], x[2])))

FailUpdatePlan ==
    Once /\ \E a \in UpdateArgs, x \in Faults :
       CallRoot("update_plan", a,
                Kept(Failing("update_plan", files, root, update_plan(files, a[1], a[2]),
                             update_plan_steps(files, a), x[1], x[2])))

FailMarkComplete ==
    Once /\ \E t \in LifeTargets, x \in Faults :
       CallRoot("mark_complete", <<t>>,
                Kept(Failing("mark_complete", files, root, mark_complete(files, t),
                             mark_complete_steps(files, <<t>>), x[1], x[2])))

FailAddTodo ==
    Once /\ \E a \in AddArgs, x \in Faults :
       CallRoot("add_todo", a,
                Kept(Failing("add_todo", files, root, add_todo(files, a[1], a[2]),
                             add_todo_steps(files, a), x[1], x[2])))

FailSaveFinding ==
    Once /\ \E a \in FindingArgs, date \in Dates, x \in Faults :
       CallRoot("save_finding", a,
                Made(Failing("save_finding", files, root,
                             save_finding(files, a[1], a[2], a[3], date),
                             save_finding_steps(files, a, date), x[1], x[2])))

FailLogProgress ==
    Once /\ \E a \in ProgressArgs, date \in Dates, x \in Faults :
       CallRoot("log_progress", a,
                Made(Failing("log_progress", files, root,
                             log_progress(files, a[1], a[2], date),
                             log_progress_steps(files, a, date), x[1], x[2])))

FailLogError ==
    Once /\ \E a \in ErrorArgs, date \in Dates, x \in Faults :
       CallRoot("log_error", a,
                Kept(log_error_failing(files, root, a, date, x[1], x[2])))

FailCleanupPlan ==
    Once /\ \E x \in Faults :
       LET pure == cleanup_plan(files, root)
           sts == cleanup_plan_steps(files, root)
       IN  CallRoot("cleanup_plan", <<>>,
                    IF x[1] \in 1 .. Len(sts)
                    THEN Made(Failing("cleanup_plan", files, root, pure, sts, x[1], x[2]))
                    ELSE pure)

NextFail ==
    \/ FailCreatePlan
    \/ FailUpdatePlan
    \/ FailMarkComplete
    \/ FailAddTodo
    \/ FailSaveFinding
    \/ FailLogProgress
    \/ FailLogError
    \/ FailCleanupPlan

SpecFail == InitFail /\ [][NextFail]_allvars

(***************************************************************************)
(* The registered tools.  A tool function runs its operation either in the *)
(* caller's thread (create_plan, mark_complete, add_todo, save_finding,    *)
(* log_error, get_planning_status) or, through _tool_simple, in a thread   *)
(* of its own that it starts before it returns its ToolResult (read_plan,  *)
(* update_plan, read_findings, log_progress, check_plan_integrity,         *)
(* cleanup_plan).  An operation reads its document and later writes it;    *)
(* steps of different threads interleave.                                  *)
(***************************************************************************)
ThreadedTools ==
    {"read_plan", "update_plan", "read_findings", "log_progress",
     "check_plan_integrity", "cleanup_plan"}

\* the tool function has not returned yet: its operation runs in the caller's
\* thread and is not through
Blocking(c) == c.op \notin ThreadedTools /\ c.pc # "done"

\* the call is between the read of a document and the write of it
InCycle(c) == c.pc \in {"read", "read2"}

\* the document the call is reading and writing
CycleDocument(c) ==
    IF c.op \in {"update_plan", "mark_complete"} THEN PLAN
    ELSE IF c.op = "log_progress" THEN PROGRESS
    ELSE IF c.pc = "read" THEN PLAN ELSE PROGRESS

\* the writes the operation makes from the documents as it read them
ToolSteps(c, date) ==
    IF c.op = "update_plan" THEN update_plan_steps(c.snap, c.args)
    ELSE IF c.op = "mark_complete" THEN mark_complete_steps(c.snap, c.args)
    ELSE IF c.op = "log_progress" THEN log_progress_steps(c.snap, c.args, date)
    ELSE IF c.pc = "read" THEN log_error_steps(c.snap, c.args, date)
    ELSE log_progress_steps(c.snap, << "ERROR: " \o c.args[1], TRUE >>, date)

\* the string the operation returns, from the documents as it read them
ToolOutput(c, date) ==
    IF c.op = "update_plan" THEN update_plan(c.snap, c.args[1], c.args[2]).out
    ELSE IF c.op = "mark_complete" THEN mark_complete(c.snap, c.args[1]).out
    ELSE IF c.op = "log_progress" THEN log_progress(c.snap, c.args[1], c.args[2], date).out
    ELSE WarnMark \o " Logged error: " \o c.args[1]

(***************************************************************************)
(* SpecTools: on a directory with a plan, a single caller invokes up to    *)
(* MaxCalls of the tools update_plan, mark_complete, log_progress and      *)
(* log_error, each after the tool function before it has returned.         *)
(***************************************************************************)
MaxCalls == 3

ToolCalls ==
    { [op |-> "update_plan", args |-> <<"Decisions", "Use a cache">>],
      [op |-> "mark_complete", args |-> <<"Define requirements">>],
      [op |-> "log_progress", args |-> <<"Profiled parser", TRUE>>],
      [op |-> "log_error", args |-> <<"Timeout", "during fetch">>] }

InitTools ==
    /\ files = create_plan(<<>>, PlanningDir, "Refactor", "Speed up parser", <<>>,
                           "2023-12-31 09:00").files
    /\ last = NoCall(files)
    /\ steps = 0
    /\ hist = NoHist
    /\ root = DefaultRoot
    /\ max_plan_length = 0
    /\ inflight = <<>>
    /\ _last_data_hash = <<>>
    /\ content_box = <<>>

\* the caller invokes a tool: the tool function of the call before has returned
IssueTool ==
    /\ Len(inflight) < MaxCalls
    /\ \A i \in DOMAIN inflight : ~Blocking(inflight[i])
    /\ \E t \in ToolCalls :
          /\ \A i \in DOMAIN inflight : inflight[i].op # t.op
          /\ inflight' = Append(inflight, [op |-> t.op, args |-> t.args, pc |-> "issued",
                                           snap |-> <<>>, out |-> ""])
    /\ UNCHANGED <<files, last, steps, hist, root, max_plan_length, _last_data_hash, content_box>>

\* open(path, 'r') and f.read(): the operation has the document in memory;
\* log_error, its plan written, goes on into log_progress
ToolReads ==
    \E i \in DOMAIN inflight :
       /\ inflight[i].pc \in {"issued", "wrote"}
       /\ PLAN \in DOMAIN files
       /\ inflight' = [inflight EXCEPT ![i].snap = files,
                                       ![i].pc = IF @ = "issued" THEN "read" ELSE "read2"]
       /\ UNCHANGED <<files, last, steps, hist, root, max_plan_length, _last_data_hash, content_box>>

\* open(path, 'w') and f.write(): what the operation computed replaces the
\* document as it is by now
ToolWrites ==
    \E i \in DOMAIN inflight, date \in Dates :
       LET c == inflight[i]
           through == c.op # "log_error" \/ c.pc = "read2"
       IN  /\ InCycle(c)
           /\ files' = DoSteps(files, ToolSteps(c, date))
           /\ inflight' = [inflight EXCEPT ![i].pc = IF through THEN "done" ELSE "wrote",
                                           ![i].out = IF through THEN ToolOutput(c, date)
                                                      ELSE ""]
           /\ last' = IF through
                      THEN [op |-> c.op, args |-> c.args, pre |-> c.snap,
                            out |-> ToolOutput(c, date)]
                      ELSE last
           /\ UNCHANGED <<steps, hist, root, max_plan_length, _last_data_hash, content_box>>

NextTools == IssueTool \/ ToolReads \/ ToolWrites

SpecTools == InitTools /\ [][NextTools]_allvars

(***************************************************************************)
(* PlanningMiniApp: the status view.  Every 2000 ms _poll_planning calls   *)
(* _update_content, which reads the directory through _get_planning_data   *)
(* and rebuilds content_box unless the hash of the data equals             *)
(* _last_data_hash.                                                        *)
(***************************************************************************)
None == <<>>
WarnSign == "{warning-sign}"

\* f"{data['task_name']}_{data['completed']}_{data['total']}_{data['errors']}"
data_hash(data) ==
    << data.task_name \o "_" \o IntToStr(data.completed) \o "_"
         \o IntToStr(data.total) \o "_" \o IntToStr(data.errors) >>

\* the phases of the todos, each once, in the order they come up (the keys of
\* the dict `phases`)
RECURSIVE PhaseKeys(_, _)
PhaseKeys(todos, seen) ==
    IF todos = <<>> THEN <<>>
    ELSE IF Head(todos).phase \in seen THEN PhaseKeys(Tail(todos), seen)
    ELSE <<Head(todos).phase>> \o PhaseKeys(Tail(todos), seen \cup {Head(todos).phase})

\* the todos of one phase, in document order
RECURSIVE PhaseTodos(_, _)
PhaseTodos(todos, phase) ==
    IF todos = <<>> THEN <<>>
    ELSE (IF Head(todos).phase = phase
          THEN <<[text |-> Head(todos).text, completed |-> Head(todos).completed]>>
          ELSE <<>>) \o PhaseTodos(Tail(todos), phase)

\* the rows of the "Tasks" box: per phase its label, if there is more than one
\* phase and the phase has a name, and its todos
RECURSIVE TodoRows(_, _, _)
TodoRows(todos, keys, n) ==
    IF keys = <<>> THEN <<>>
    ELSE (IF n > 1 /\ Head(keys) # "" THEN <<[label |-> Head(keys)]>> ELSE <<>>)
         \o PhaseTodos(todos, Head(keys))
         \o TodoRows(todos, Tail(keys), n)

\* nothing has been put into content_box
Blank == [subtitle |-> "", status |-> "", progress |-> "", errors |-> "",
          objective |-> "", todos |-> <<>>, chips |-> <<>>]

\* what _update_content puts on display for the data it was given
Display(data) ==
    IF ~data.exists
    THEN [subtitle |-> "No active plan", status |-> "Idle", progress |-> "",
          errors |-> "", objective |-> "", todos |-> <<>>, chips |-> <<>>]
    ELSE [subtitle |-> data.task_name,
          status |-> IF data.completed < data.total THEN "In Progress" ELSE "Complete",
          progress |-> IntToStr(data.completed) \o "/" \o IntToStr(data.total) \o " ("
                         \o IntToStr(Percent(data.completed, data.total)) \o "%)",
          errors |-> IF data.errors > 0
                     THEN WarnSign \o " " \o IntToStr(data.errors) \o " error(s) logged"
                     ELSE "",
          objective |-> Slice(data.objective, 0, 300)
                          \o (IF Len(data.objective) > 300 THEN "..." ELSE ""),
          todos |-> TodoRows(data.todos, PhaseKeys(data.todos, {}),
                             Len(PhaseKeys(data.todos, {}))),
          chips |-> <<TRUE, data.has_findings, data.has_progress>>]

\* _update_content: returns the pair (_last_data_hash, content_box) it leaves
_update_content(fs, last_hash, shown) ==
    LET data == _get_planning_data(fs)
    IN  IF data_hash(data) = last_hash
        THEN [hash |-> last_hash, box |-> shown]
        ELSE [hash |-> data_hash(data), box |-> Display(data)]

(***************************************************************************)
(* SpecView: up to MaxViewOps operations change the directory while the    *)
(* view polls at any moment between them.                                  *)
(***************************************************************************)
MaxViewOps == 2

ViewCreateArgs ==
    { <<"Refactor", "Speed up parser", <<>> >>,
      <<"Refactor", "Reduce memory", <<"Investigate", "Implement">> >> }
ViewUpdateArgs == { <<"Objective", "Ship the release">> }
ViewAddArgs == { <<"Write tests", "">> }
ViewTargets == { "Define requirements" }

InitView ==
    /\ files \in { <<>>,
                   create_plan(<<>>, PlanningDir, "Refactor", "Speed up parser", <<>>,
                               "2023-12-31 09:00").files }
    /\ last = NoCall(files)
    /\ steps = 0
    /\ hist = NoHist
    /\ root = DefaultRoot
    /\ max_plan_length = 0
    /\ inflight = <<>>
    /\ _last_data_hash = None
    /\ content_box = Blank

ViewStep == steps < MaxViewOps /\ steps' = steps + 1 /\ hist' = hist

ViewCreatePlan == ViewStep /\ CreatePlan(ViewCreateArgs)
ViewUpdatePlan == ViewStep /\ UpdatePlan(ViewUpdateArgs)
ViewMarkComplete == ViewStep /\ MarkComplete(ViewTargets)
ViewAddTodo == ViewStep /\ AddTodo(ViewAddArgs)
ViewLogError == ViewStep /\ LogError(ErrorArgs)
ViewCleanupPlan == ViewStep /\ CleanupPlan

\* GLib.timeout_add(2000, self._poll_planning)
PollPlanning ==
    LET r == _update_content(files, _last_data_hash, content_box)
    IN  /\ _last_data_hash' = r.hash
        /\ content_box' = r.box
        /\ last' = [op |-> "_update_content", args |-> <<>>, pre |-> files, out |-> ""]
        /\ UNCHANGED <<files, steps, hist, root, max_plan_length, inflight>>

NextView ==
    \/ ViewCreatePlan
    \/ ViewUpdatePlan
    \/ ViewMarkComplete
    \/ ViewAddTodo
    \/ ViewLogError
    \/ ViewCleanupPlan
    \/ PollPlanning

SpecView == InitView /\ [][NextView]_allvars

(***************************************************************************)
(* SpecTwice: update_plan called on a plan, and then once more with the    *)
(* same section and content.                                               *)
(***************************************************************************)
MaxTwice == 2

TwicePieces ==
    { "## Notes\n", "### Notes\n", "## Notes", "## Other\n", "text\n", "\n" }
TwiceSections == { "Notes", "Note", "Notes\n" }
TwiceContents == { "c", "", "### sub\n- [ ] x", "a ## b", "## Other" }

InitTwice ==
    /\ \E d \in DocsOf(TwicePieces, MaxTwice) : files = (PLAN :> d)
    /\ last = NoCall(files)
    /\ steps = 0
    /\ hist = last
    /\ root = DefaultRoot
    /\ max_plan_length = 0
    /\ inflight = <<>>
    /\ _last_data_hash = <<>>
    /\ content_box = <<>>

\* the first call; hist keeps what it was and what it returned
UpdateFirst ==
    /\ steps = 0
    /\ UpdatePlan(TwiceSections \X TwiceContents)
    /\ steps' = 1
    /\ hist' = last'

\* the same call again
UpdateAgain ==
    /\ steps = 1
    /\ UpdatePlan({last.args})
    /\ steps' = 2
    /\ hist' = hist

NextTwice == UpdateFirst \/ UpdateAgain

SpecTwice == InitTwice /\ [][NextTwice]_allvars

(***************************************************************************)
(* SpecCount: on the plan create_plan has made, up to MaxCountOps calls of *)
(* add_todo, mark_complete, log_error, log_progress and save_finding, in   *)
(* any order.                                                              *)
(***************************************************************************)
MaxCountOps == 3

CountAddArgs ==
    { <<"Write tests", "">>, <<" ", "">>, <<"", "">>, <<"Write tests", "Planning">> }
CountTargets == { "Define requirements", "Write tests" }

InitCount ==
    /\ files = create_plan(<<>>, PlanningDir, "Refactor", "Speed up parser", <<>>,
                           "2023-12-31 09:00").files
    /\ last = NoCall(files)
    /\ steps = 0
    /\ hist = NoHist
    /\ root = DefaultRoot
    /\ max_plan_length = 0
    /\ inflight = <<>>
    /\ _last_data_hash = <<>>
    /\ content_box = <<>>

CountStep == steps < MaxCountOps /\ steps' = steps + 1 /\ hist' = hist

CountAddTodo == CountStep /\ AddTodo(CountAddArgs)
CountMarkComplete == CountStep /\ MarkComplete(CountTargets)
CountLogError == CountStep /\ LogError(ErrorArgs)
CountLogProgress == CountStep /\ LogProgress(ProgressArgs)
CountSaveFinding == CountStep /\ SaveFinding(FindingArgs)

NextCount ==
    \/ CountAddTodo
    \/ CountMarkComplete
    \/ CountLogError
    \/ CountLogProgress
    \/ CountSaveFinding

SpecCount == InitCount /\ [][NextCount]_allvars

(***************************************************************************)
(* SpecPure: the operations that only read (get_status,                    *)
(* check_plan_integrity, read_plan, read_findings), called in any order    *)
(* with create_plan, mark_complete and cleanup_plan, up to MaxPureOps      *)
(* calls from an empty directory.                                          *)
(***************************************************************************)
MaxPureOps == 3

PureCreateArgs == { <<"Refactor", "Speed up parser", <<>> >> }
PureTargets == { "Define requirements" }

InitPure ==
    /\ files = <<>>
    /\ last = NoCall(files)
    /\ steps = 0
    /\ hist = NoHist
    /\ root \in LifeRoots
    /\ max_plan_length = 0
    /\ inflight = <<>>
    /\ _last_data_hash = <<>>
    /\ content_box = <<>>

PureStep == steps < MaxPureOps /\ steps' = steps + 1 /\ hist' = hist

PureGetStatus == PureStep /\ GetStatus
PureCheckPlanIntegrity == PureStep /\ CheckPlanIntegrity
PureReadPlan == PureStep /\ ReadPlan(ReadOffsets)
PureReadFindings == PureStep /\ ReadFindings(ReadOffsets)
PureCreatePlan == PureStep /\ CreatePlan(PureCreateArgs)
PureMarkComplete == PureStep /\ MarkComplete(PureTargets)
PureCleanupPlan == PureStep /\ CleanupPlan

NextPure ==
    \/ PureGetStatus
    \/ PureCheckPlanIntegrity
    \/ PureReadPlan
    \/ PureReadFindings
    \/ PureCreatePlan
    \/ PureMarkComplete
    \/ PureCleanupPlan

SpecPure == InitPure /\ [][NextPure]_allvars

(***************************************************************************)
(* SpecRead: read_plan and read_findings, once, at every offset up to one  *)
(* past the end, on documents of up to MaxDocLen characters and on one     *)
(* longer than the default length, under each setting of max_plan_length.  *)
(***************************************************************************)
MaxDocLen == 12

Digits == "0123456789"

\* the first n characters of 0123456789 repeated
RECURSIVE Sample(_)
Sample(n) == IF n <= 10 THEN Slice(Digits, 0, n) ELSE Digits \o Sample(n - 10)

\* a document of more than DefaultMaxLength characters
LongDoc ==
    LET x10 == Sample(10)
        x100 == x10 \o x10 \o x10 \o x10 \o x10 \o x10 \o x10 \o x10 \o x10 \o x10
        x1000 == x100 \o x100 \o x100 \o x100 \o x100 \o x100 \o x100 \o x100 \o x100 \o x100
    IN  x1000 \o x1000 \o x1000 \o x1000 \o "abcdefgh"

ReadDocs == { Sample(n) : n \in 0 .. MaxDocLen } \cup { LongDoc }

\* the values of the setting: not set, and two small ones
MaxLengths == { 0, 5, 10 }

ReadStarts == 0 .. MaxDocLen + 1

InitRead ==
    /\ \E have \in SUBSET {PLAN, FINDINGS} :
          \E d \in ReadDocs : files = [f \in have |-> d]
    /\ last = NoCall(files)
    /\ steps = 0
    /\ hist = NoHist
    /\ root = DefaultRoot
    /\ max_plan_length \in MaxLengths
    /\ inflight = <<>>
    /\ _last_data_hash = <<>>
    /\ content_box = <<>>

NextRead ==
    /\ last.op = "init"
    /\ ReadPlan(ReadStarts) \/ ReadFindings(ReadStarts)
    /\ UNCHANGED <<steps, hist>>

SpecRead == InitRead /\ [][NextRead]_allvars

(***************************************************************************)
(* What the claims say about a call of mark_complete, stated on the lines  *)
(* of the plan before and after it.                                        *)
(***************************************************************************)
Marked == last.op = "mark_complete" /\ PLAN \in DOMAIN last.pre
LinesBefore == ReadLines(last.pre[PLAN])
LinesAfter == ReadLines(files[PLAN])
Target == last.args[1]

MarkSucceeded == Marked /\ StartsWith(last.out, OkMark \o " Marked as complete: ")
MarkNotFound ==
    Marked /\ last.out = WarnMark \o " Item '" \o Target
                           \o "' not found (or already completed)"

\* the unchecked items of the plan before the call, as <<line number, text>>
\* (lines numbered from 1)
UncheckedItems ==
    LET lines == LinesBefore
    IN  {<<k, TaskText(lines[k])>> : k \in {j \in 1 .. Len(lines) : is_incomplete_task(lines[j])}}
Unchecked == {it[1] : it \in UncheckedItems}
ItemText(k) == TaskText(LinesBefore[k])
ExactItems == {it[1] : it \in {x \in UncheckedItems : x[2] = Strip(Target)}}
\* the scored items as <<line number, score>>: 0.9 for an item whose lower-cased
\* text contains the lower-cased trimmed target, else the similarity ratio if
\* that is above 0.8
ScoreOf(text, target) ==
    IF Contains(Lower(text), target) THEN <<9, 10>> ELSE Ratio(target, Lower(text))
Scores ==
    LET target == Lower(Strip(Target))
    IN  {sc \in {<<it[1], ScoreOf(it[2], target)>> : it \in UncheckedItems} :
            sc[2] = <<9, 10>> \/ ScoreGT(sc[2], <<8, 10>>)}
\* the highest score, ties to the earliest line
BestOf(scores) ==
    CHOOSE k \in {sc[1] : sc \in scores} :
        \E sk \in scores :
            /\ sk[1] = k
            /\ \A sj \in scores : /\ ~ScoreGT(sj[2], sk[2])
                                  /\ (~ScoreGT(sk[2], sj[2]) => k <= sj[1])

\* line k, and no other line, was rewritten, from unchecked to not unchecked
OnlyLineChecked(k) ==
    LET before == LinesBefore
        after == LinesAfter
    IN  /\ MarkSucceeded
        /\ Len(after) = Len(before)
        /\ \A j \in 1 .. Len(before) : j # k => after[j] = before[j]
        /\ after[k] # before[k]
        /\ ~is_incomplete_task(after[k])
        /\ last.out = OkMark \o " Marked as complete: " \o TaskText(before[k])

(* C1: whenever some unchecked item's trimmed text equals the trimmed       *)
(* target (case-sensitively), mark_complete checks the first such item in  *)
(* document order, whatever substring-containing or similar items there    *)
(* are and wherever they stand.                                            *)
C1_ExactMatchFirst ==
    (Marked /\ ExactItems # {}) => OnlyLineChecked(SetMin(ExactItems))

\* an exact match was taken although an unchecked item that merely contains
\* the target stands before it
C1_Witness ==
    /\ Marked /\ ExactItems # {}
    /\ \E sc \in Scores : sc[1] \notin ExactItems /\ sc[1] < SetMin(ExactItems)
    /\ OnlyLineChecked(SetMin(ExactItems))

(* C2: without an exact match, the unchecked item with the highest score   *)
(* is checked, where containing the lower-cased trimmed target scores 0.9  *)
(* and any other item scores its similarity ratio if that exceeds 0.8;     *)
(* ties go to the earliest item; with no scored item the result is         *)
(* not-found.                                                              *)
C2_HighestScoreWins ==
    (Marked /\ ExactItems = {}) =>
        LET scores == Scores
        IN  IF scores = {} THEN MarkNotFound ELSE OnlyLineChecked(BestOf(scores))

\* a similar item scoring above 0.9 won over an earlier item containing the
\* target, while a third unchecked item was not scored at all
C2_Witness ==
    /\ Marked /\ ExactItems = {}
    /\ LET scores == Scores
       IN  /\ scores # {}
           /\ \E sb \in scores :
                 /\ sb[1] = BestOf(scores)
                 /\ ScoreGT(sb[2], <<9, 10>>)
                 /\ \E sj \in scores : sj[2] = <<9, 10>> /\ sj[1] < sb[1]
           /\ Unchecked \ {sc[1] : sc \in scores} # {}
           /\ OnlyLineChecked(BestOf(scores))

\* the lines that differ between the plan before and after the call
ChangedLines ==
    LET before == LinesBefore
        after == LinesAfter
    IN  {k \in 1 .. Min2(Len(before), Len(after)) : after[k] # before[k]}

\* new is old with one `[ ]` turned into `[x]`, and before that bracket old
\* holds nothing but indentation, one bullet and whitespace
BracketToggled(old, new) ==
    \E p \in 0 .. Len(old) :
        /\ Slice(old, p, p + 3) = "[ ]"
        /\ new = Slice(old, 0, p) \o "[x]" \o From(old, p + 3)
        /\ Strip(Slice(old, 0, p)) \in {"-", "*"}

(* C3: a successful mark_complete changes exactly one line of the plan,    *)
(* and on it only the bracket, from `[ ]` to `[x]`: indentation, bullet    *)
(* and text stay, every other line is identical, the number of lines is    *)
(* unchanged.                                                              *)
C3_OnlyBracketChanges ==
    MarkSucceeded =>
        /\ Len(LinesAfter) = Len(LinesBefore)
        /\ Cardinality(ChangedLines) = 1
        /\ \A k \in ChangedLines : BracketToggled(LinesBefore[k], LinesAfter[k])
        /\ \A n \in DOMAIN files \ {PLAN} : files[n] = last.pre[n]
        /\ DOMAIN files = DOMAIN last.pre

\* an indented `*` item between two other lines was checked
C3_Witness ==
    /\ MarkSucceeded
    /\ \E k \in ChangedLines :
          /\ StartsWith(LinesBefore[k], "  * [ ]")
          /\ StartsWith(LinesAfter[k], "  * [x] fix bug")
          /\ 1 < k /\ k < Len(LinesBefore)

\* the items _parse_todos_from_plan reads from the plan before and after
TodosBefore == _parse_todos_from_plan(last.pre[PLAN])
TodosAfter == _parse_todos_from_plan(files[PLAN])

(* C4: after a successful mark_complete the plan parses to the same item   *)
(* list as before, except that exactly the targeted item's completed flag  *)
(* went from false to true; this for every line mark_complete accepts as   *)
(* an unchecked item (indented lines, `*` bullets, items with empty text). *)
C4_ReparseChangesOnlyTarget ==
    MarkSucceeded =>
        /\ Len(TodosAfter) = Len(TodosBefore)
        /\ \E k \in 1 .. Len(TodosBefore) :
              /\ ~TodosBefore[k].completed
              /\ TodosAfter[k] = [TodosBefore[k] EXCEPT !.completed = TRUE]
              /\ \A j \in 1 .. Len(TodosBefore) : j # k => TodosAfter[j] = TodosBefore[j]

(* C5: when mark_complete finds no candidate for its target it returns the *)
(* not-found warning and writes nothing: the plan and the other two        *)
(* documents are as before the call.                                       *)
C5_NoMatchNoWrite ==
    (Marked /\ ExactItems = {} /\ Scores = {}) => (MarkNotFound /\ files = last.pre)

\* not found although the plan holds unchecked items, beside the other documents
C5_Witness ==
    /\ Marked /\ ExactItems = {} /\ Scores = {} /\ Unchecked # {}
    /\ MarkNotFound
    /\ DOMAIN files = {PLAN, FINDINGS, PROGRESS}

(***************************************************************************)
(* What the claims say about the status after a plan was created.          *)
(***************************************************************************)
Status == _get_planning_data(files)

(* C6: After create_plan with k >= 1 phase names, a successful add_todo    *)
(* calls and m successful mark_complete calls, the status reports          *)
(* total = k + a, completed = m and errors = 0; with no phase names the    *)
(* initial total is 3.                                                     *)
C6_StatusCounts ==
    hist.k # -1 =>
        /\ Status.total = (IF hist.k = 0 THEN 3 ELSE hist.k) + hist.a
        /\ Status.completed = hist.m
        /\ Status.errors = 0

Created == last.op = "create_plan"
Task == last.args[1]
Objective == last.args[2]
PhaseNames == last.args[3]

\* the three documents as the templates give them for the arguments
FreshDocuments ==
    \E date \in Dates :
       files = (PLAN :> TASK_PLAN_TEMPLATE(Task, date, Objective,
                                           PhasesContent(PhaseNames)))
                 @@ (FINDINGS :> FINDINGS_TEMPLATE(Task, date))
                 @@ (PROGRESS :> PROGRESS_TEMPLATE(Task, date))

\* arguments that hold no marker the status looks for: a task name and phase
\* names of one line each, an objective without a line that starts with ## or
\* is a checked item
PlainArguments ==
    /\ \A x \in {Task} \cup {PhaseNames[k] : k \in DOMAIN PhaseNames} :
          ~Contains(x, "\n")
    /\ \A x \in {Task, Objective} \cup {PhaseNames[k] : k \in DOMAIN PhaseNames} :
          ~Contains(x, "### Error at")
    /\ ~Contains(Task, "# Task Plan:")
    /\ ~EndsWith(Task, "## Objective")
    /\ ~Contains(Objective, "\n##")
    /\ \A k \in DOMAIN SplitLines(Objective) :
          ~(TodoMatch(SplitLines(Objective)[k]).ok
            /\ TodoMatch(SplitLines(Objective)[k]).completed)

(* C7, as stated: after create_plan the three documents are the ones the   *)
(* arguments give, and the status reports the task name and the objective  *)
(* as passed, completed = 0 and errors = 0.                                *)
C7_AsStated ==
    Created =>
        /\ FreshDocuments
        /\ Status.task_name = Task
        /\ Status.objective = Objective
        /\ Status.completed = 0
        /\ Status.errors = 0

(* C7: after create_plan the three documents are exactly the templates     *)
(* filled with the arguments, whatever existed before; when the arguments  *)
(* hold no marker the status looks for, the status reports the task name   *)
(* and the objective stripped of surrounding whitespace, completed = 0,    *)
(* errors = 0 and no checked item.                                         *)
C7_CreateOverwrites ==
    Created =>
        /\ FreshDocuments
        /\ PlainArguments =>
              /\ Status.task_name = Strip(Task)
              /\ Status.objective = Strip(Objective)
              /\ Status.completed = 0
              /\ Status.errors = 0
              /\ \A k \in DOMAIN Status.todos : ~Status.todos[k].completed

\* create_plan with plain arguments, surrounded by whitespace, on the
\* directory of an earlier plan with a checked item, an error and a finding
C7_Witness ==
    /\ Created
    /\ PlainArguments
    /\ Task # Strip(Task)
    /\ Contains(Objective, "\n")
    /\ last.pre = EarlierDir
    /\ _get_planning_data(last.pre).completed = 1
    /\ _get_planning_data(last.pre).errors = 1
    /\ Contains(last.pre[FINDINGS], "Old finding")
    /\ Status.completed = 0

(***************************************************************************)
(* What the claims say about the operations that look a section up.        *)
(***************************************************************************)
\* the line of s that starts at offset p, without its line end
LineAt(s, p) ==
    LET e == Find(s, "\n", p)
    IN  Slice(s, p, IF e = -1 THEN Len(s) ELSE e)

\* the offset of the first line of s that reads "## name", or -1
HeadingLine(s, name) ==
    LET hits == {p \in LineStarts(s) : LineAt(s, p) = "## " \o name}
    IN  IF hits = {} THEN -1 ELSE SetMin(hits)

\* the operations that look a section up, the document and the section
SectionOps == {"update_plan", "save_finding", "log_error", "log_progress"}
SectionDoc ==
    CASE last.op \in {"update_plan", "log_error"} -> PLAN
      [] last.op = "save_finding" -> FINDINGS
      [] last.op = "log_progress" -> PROGRESS
SectionName ==
    CASE last.op = "update_plan" -> last.args[1]
      [] last.op = "save_finding" -> last.args[3]
      [] last.op = "log_error" -> "Error Log"
      [] last.op = "log_progress" -> "Session Log"
SectionCall == last.op \in SectionOps /\ SectionDoc \in DOMAIN last.pre
DocBefore == last.pre[SectionDoc]
DocAfter == files[SectionDoc]

(* C8: update_plan(section, content) on an existing plan: when a heading   *)
(* line "## section" exists, the text up to and including the first such   *)
(* line and the text from the next level-2 heading on are unchanged, the   *)
(* body between them is content, and the reply says updated; otherwise the *)
(* section is appended to the right-trimmed plan and the reply says added. *)
C8_ReplaceOrAppend ==
    (last.op = "update_plan" /\ PLAN \in DOMAIN last.pre) =>
        LET section == last.args[1]
            content == last.args[2]
            marker == "## " \o section
            h == HeadingLine(DocBefore, section)
            body == h + Len(marker)
            next == Find(DocBefore, "\n## ", body)
        IN  IF h # -1
            THEN /\ DocAfter = Slice(DocBefore, 0, body) \o "\n" \o content \o "\n"
                                 \o (IF next = -1 THEN "" ELSE From(DocBefore, next))
                 /\ last.out = OkMark \o " Updated section '" \o section \o "'"
            ELSE /\ DocAfter = RStrip(DocBefore) \o "\n\n" \o marker \o "\n"
                                 \o content \o "\n"
                 /\ last.out = OkMark \o " Added new section '" \o section \o "'"

(* C9: when no line of the document reads exactly "## name", the section   *)
(* is taken as absent: the document before the call stays as it is, right- *)
(* trimmed, and the new section "## name" follows it.                      *)
C9_ExactHeadingOnly ==
    (SectionCall /\ HeadingLine(DocBefore, SectionName) = -1) =>
        StartsWith(DocAfter, RStrip(DocBefore) \o "\n\n## " \o SectionName \o "\n")

(***************************************************************************)
(* What the claims say about the operations that insert text.              *)
(***************************************************************************)
InsertOps == {"save_finding", "log_error", "add_todo", "log_progress"}

\* the documents an inserting operation writes
InsertDocs ==
    CASE last.op = "save_finding" -> {FINDINGS}
      [] last.op = "log_progress" -> {PROGRESS}
      [] last.op = "add_todo" -> {PLAN}
      [] last.op = "log_error" -> {PLAN, PROGRESS}

\* add_todo and log_error refuse to act without a plan
InsertCall ==
    /\ last.op \in InsertOps
    /\ last.op \in {"add_todo", "log_error"} => PLAN \in DOMAIN last.pre

\* the document the operation started from: a missing findings or progress
\* document is first made from its template
Before(f) ==
    IF f \in DOMAIN last.pre THEN last.pre[f]
    ELSE LET date == CHOOSE d \in Dates : TRUE
         IN  IF f = FINDINGS THEN FINDINGS_TEMPLATE("Task", date)
             ELSE PROGRESS_TEMPLATE("Task", date)

\* after is before with text put in at offset p and nothing taken away
InsertedAt(before, after, p) ==
    /\ StartsWith(after, Slice(before, 0, p))
    /\ EndsWith(after, From(before, p))
    /\ Len(after) >= Len(before)

\* after is before with the whitespace that ends at offset p taken away and
\* a text that is not empty put in its place
TrimmedAndInsertedAt(before, after, p) ==
    LET head == RStrip(Slice(before, 0, p))
        tail == From(before, p)
    IN  /\ StartsWith(after, head)
        /\ EndsWith(after, tail)
        /\ Len(after) > Len(head) + Len(tail)

Added == last.op = "add_todo" /\ PLAN \in DOMAIN last.pre
PlanBefore == last.pre[PLAN]
PlanAfter == files[PLAN]
Item == last.args[1]
Phase == last.args[2]

\* the offsets of the lines of s that start with prefix
LinesWith(s, prefix) == {p \in LineStarts(s) : StartsWith(LineAt(s, p), prefix)}

\* the offset of the level-3 heading the phase names: the first that reads
\* "### phase", else the first whose title contains phase, any case; or -1
PhaseHeading(s, phase) ==
    LET literal == LinesWith(s, "### " \o phase)
        fuzzy == {p \in LinesWith(s, "### ") :
                     Contains(Lower(LineAt(s, p)), Lower(phase))}
    IN  IF literal # {} THEN SetMin(literal)
        ELSE IF fuzzy # {} THEN SetMin(fuzzy) ELSE -1

\* the offset of the first level-3 or level-2 heading behind offset h, or the end
NextHeading(s, h) ==
    LET later == {p \in LinesWith(s, "### ") \cup LinesWith(s, "## ") : p > h}
    IN  IF later = {} THEN Len(s) ELSE SetMin(later)

\* todos with item x put in behind the first n of them
InsertAt(todos, n, x) == SubSeq(todos, 1, n) \o <<x>> \o SubSeq(todos, n + 1, Len(todos))

(* C11: add_todo(item, phase) on an existing plan adds exactly one         *)
(* unchecked item with text item and changes no other item.  Under the     *)
(* level-3 heading the phase names, the item stands before the next        *)
(* level-3 or level-2 heading, so it is parsed with that heading's title   *)
(* as its phase and behind the items already there; with no such heading,  *)
(* "### phase" and the item are appended to the plan.                      *)
C11_AddUnderPhase ==
    (Added /\ Phase # "") =>
        LET h == PhaseHeading(PlanBefore, Phase)
            q == NextHeading(PlanBefore, h)
            n == Len(_parse_todos_from_plan(Slice(PlanBefore, 0, q)))
            todos == _parse_todos_from_plan(PlanBefore)
        IN  IF h # -1
            THEN _parse_todos_from_plan(PlanAfter) =
                    InsertAt(todos, n, [text |-> Item, completed |-> FALSE,
                                        phase |-> PhaseMatch(LineAt(PlanBefore, h)).text])
            ELSE /\ PlanAfter = RStrip(PlanBefore) \o "\n\n### " \o Phase
                                  \o "\n- [ ] " \o Item \o "\n"
                 /\ _parse_todos_from_plan(PlanAfter) =
                       todos \o <<[text |-> Item, completed |-> FALSE, phase |-> Phase]>>

\* todos without the k-th of them
RemoveAt(todos, k) == SubSeq(todos, 1, k - 1) \o SubSeq(todos, k + 1, Len(todos))

(* C12: add_todo(item) without a phase on a plan with a "## Phases"        *)
(* heading puts the line "- [ ] item" right before the first "## Notes" or *)
(* "## Error Log" heading behind "## Phases", or at the end of the plan,   *)
(* and never inside another line; without "## Phases" it appends a         *)
(* "## Tasks" section with the item.  One item is added, none changed.     *)
C12_AddWithoutPhase ==
    (Added /\ Phase = "") =>
        LET phases == LinesWith(PlanBefore, "## Phases")
            ends == {p \in LinesWith(PlanBefore, "## Notes")
                             \cup LinesWith(PlanBefore, "## Error Log") :
                        phases # {} /\ p > SetMin(phases)}
            q == IF ends = {} THEN Len(PlanBefore) ELSE SetMin(ends)
            n == Len(_parse_todos_from_plan(Slice(PlanBefore, 0, q)))
            todos == _parse_todos_from_plan(PlanBefore)
            added == _parse_todos_from_plan(PlanAfter)
        IN  IF phases # {}
            THEN /\ PlanAfter = RStrip(Slice(PlanBefore, 0, q)) \o "\n- [ ] " \o Item
                                  \o "\n\n" \o From(PlanBefore, q)
                 /\ Len(added) = Len(todos) + 1
                 /\ added[n + 1].text = Item /\ ~added[n + 1].completed
                 /\ RemoveAt(added, n + 1) = todos
            ELSE /\ PlanAfter = RStrip(PlanBefore) \o "\n\n## Tasks\n- [ ] " \o Item \o "\n"
                 /\ Len(added) = Len(todos) + 1
                 /\ added[Len(added)].text = Item /\ ~added[Len(added)].completed
                 /\ RemoveAt(added, Len(added)) = todos

(***************************************************************************)
(* What the claims say about a call of log_progress and of log_error.      *)
(***************************************************************************)
\* the bullet log_progress(entry, include_timestamp) writes
Bullet(entry, include_timestamp) ==
    "- " \o (IF include_timestamp
             THEN "[" \o (CHOOSE d \in Dates : TRUE) \o "] " ELSE "")
         \o entry

(* C13: log_progress puts its bullet on the line right behind the heading  *)
(* line "## Session Log" and leaves the rest of the document as it is, so  *)
(* the bullets of a sequence of calls stand under the heading, the latest  *)
(* first, above all earlier content; an absent document is first made from *)
(* the template, and a missing section is made at the end of the document. *)
C13_NewestFirst ==
    last.op = "log_progress" =>
        LET before == Before(PROGRESS)
            after == files[PROGRESS]
            bullet == Bullet(last.args[1], last.args[2])
            h == HeadingLine(before, "Session Log")
            e == h + Len("## Session Log")
        IN  IF h # -1
            THEN after = Slice(before, 0, e) \o "\n" \o bullet \o From(before, e)
            ELSE after = RStrip(before) \o "\n\n## Session Log\n" \o bullet \o "\n"

Logged == last.op = "log_error" /\ PLAN \in DOMAIN last.pre
Error == last.args[1]

\* the head of the entry log_error(error, context) writes
ErrorEntry == "### Error at " \o (CHOOSE d \in Dates : TRUE) \o "\n**Error:** " \o Error \o "\n"

\* whether s holds entry in the section "## name": behind the heading line
\* and before the next level-2 heading
InSection(s, name, entry) ==
    LET h == HeadingLine(s, name)
    IN  /\ h # -1
        /\ \E e \in (h + 1) .. Len(s) :
              /\ Slice(s, e, e + Len(entry)) = entry
              /\ \A p \in LinesWith(s, "## ") : ~(h < p /\ p <= e)

(* C14: a log_error on an existing plan raises the number of errors the    *)
(* status reports by exactly 1, and the new "### Error at" entry stands in *)
(* the section "## Error Log", before the next level-2 heading; a plan     *)
(* without the section gets it at its end.                                 *)
C14_OneMoreError ==
    Logged =>
        /\ Status.errors = _get_planning_data(last.pre).errors + 1
        /\ InSection(PlanAfter, "Error Log", ErrorEntry)
        /\ HeadingLine(PlanBefore, "Error Log") = -1 =>
              StartsWith(PlanAfter, RStrip(PlanBefore) \o "\n\n## Error Log\n" \o ErrorEntry)

\* the bullet log_error passes on to log_progress
ErrorBullet == Bullet("ERROR: " \o Error, TRUE)

(* C15, as stated: every call of log_error, whatever documents exist,      *)
(* leaves the bullet "ERROR: error" in the progress document.              *)
C15_AsStated ==
    last.op = "log_error" =>
        /\ PROGRESS \in DOMAIN files
        /\ Contains(files[PROGRESS], ErrorBullet)

(* C15: a call of log_error on an existing plan also calls log_progress    *)
(* with "ERROR: error": the progress document, made from the template when *)
(* absent, then holds the bullet once more than before.  Without a plan    *)
(* log_error returns the not-found warning and no document is written.     *)
C15_ErrorAlsoLogged ==
    last.op = "log_error" =>
        IF PLAN \in DOMAIN last.pre
        THEN /\ PROGRESS \in DOMAIN files
             /\ Count(files[PROGRESS], ErrorBullet)
                  = Count(Before(PROGRESS), ErrorBullet) + 1
             /\ last.out = WarnMark \o " Logged error: " \o Error
        ELSE /\ files = last.pre
             /\ last.out = WarnMark \o " No task_plan.md found."

\* log_error on a plan beside a progress document with a session log: the
\* bullet stands right under the heading
C15_Witness ==
    /\ Logged
    /\ PROGRESS \in DOMAIN last.pre
    /\ HeadingLine(last.pre[PROGRESS], "Session Log") = 0
    /\ StartsWith(files[PROGRESS], "## Session Log\n" \o ErrorBullet \o "\n")

(***************************************************************************)
(* What the claims say about the documents that exist.                     *)
(***************************************************************************)
\* the operations that work on the plan document and do not create it
PlanOps == {"update_plan", "mark_complete", "add_todo", "log_error", "read_plan"}

\* the document save_finding and log_progress make when it is absent
OwnDocument == [save_finding |-> FINDINGS, log_progress |-> PROGRESS]

(* C16: called while task_plan.md is absent, update_plan, mark_complete,   *)
(* add_todo, log_error and read_plan return the warning that no plan was   *)
(* found and leave the documents as they are; a plan document that was not *)
(* there before a call was made by create_plan; save_finding and           *)
(* log_progress add at most their own document and leave the others alone. *)
C16_PlanOnlyByCreate ==
    /\ (last.op \in PlanOps /\ PLAN \notin DOMAIN last.pre) =>
          /\ files = last.pre
          /\ StartsWith(last.out, WarnMark \o " No task_plan.md found.")
    /\ (PLAN \in DOMAIN files /\ PLAN \notin DOMAIN last.pre) =>
          last.op = "create_plan"
    /\ last.op \in DOMAIN OwnDocument =>
          /\ DOMAIN files = DOMAIN last.pre \cup {OwnDocument[last.op]}
          /\ \A f \in DOMAIN last.pre \ {OwnDocument[last.op]} : files[f] = last.pre[f]

\* log_error without a plan, beside a findings document made by save_finding
C16_Witness ==
    /\ last.op = "log_error"
    /\ PLAN \notin DOMAIN last.pre
    /\ DOMAIN files = {FINDINGS}

AllDocuments == {PLAN, FINDINGS, PROGRESS}

(* C17, as stated: in every state reached from the empty planning          *)
(* directory, none or all three of the documents exist.                    *)
C17_AsStated == DOMAIN files \in { {}, AllDocuments }

(* C17: in every state reached from the empty planning directory, the plan *)
(* document exists only together with the findings and the progress        *)
(* document, and right after cleanup_plan none of the three exists.  The   *)
(* findings and the progress document may exist without the plan, each     *)
(* alone or both.                                                          *)
C17_PlanNeverAlone ==
    /\ PLAN \in DOMAIN files => DOMAIN files = AllDocuments
    /\ last.op = "cleanup_plan" => DOMAIN files = {}
    /\ DOMAIN files \in { {}, {FINDINGS}, {PROGRESS}, {FINDINGS, PROGRESS}, AllDocuments }

\* create_plan called where log_progress had made the progress document alone
C17_Witness ==
    /\ last.op = "create_plan"
    /\ DOMAIN last.pre = {PROGRESS}
    /\ DOMAIN files = AllDocuments

(***************************************************************************)
(* What the claims say about a call of cleanup_plan.                       *)
(***************************************************************************)
\* cleanup_plan found the directory and reports what it removed
CleanedUp == last.op = "cleanup_plan" /\ StartsWith(last.out, OkMark \o " Cleaned up: ")

(* C18: after a successful cleanup_plan none of the three documents exists *)
(* and read_plan would return the warning that no plan was found; the      *)
(* planning directory is gone if and only if it held no other entry; the   *)
(* other entries are the ones it held at the start.                        *)
C18_CleanupRemovesRoot ==
    /\ CleanedUp =>
          /\ DOMAIN files = {}
          /\ read_plan(files, 0, max_plan_length).out
               = WarnMark \o " No task_plan.md found. Use create_plan to start."
          /\ ~root.exists <=> root.others = {}
    /\ \E r \in LifeRoots : root.others = r.others /\ root.dir = r.dir

(***************************************************************************)
(* What the claims say about a call of read_plan and of read_findings.     *)
(***************************************************************************)
Reads == [read_plan |-> PLAN, read_findings |-> FINDINGS]
Read == last.op \in DOMAIN Reads
ReadName == Reads[last.op]
Offset == last.args[1]

\* the budget: the setting, or the default length when it is not set
Budget == IF max_plan_length = 0 THEN DefaultMaxLength ELSE max_plan_length

NoDocument ==
    IF last.op = "read_plan"
    THEN WarnMark \o " No task_plan.md found. Use create_plan to start."
    ELSE WarnMark \o " No findings.md found."

EndOfRange == WarnMark \o " End of file reached."

\* what is returned of rest: all of it within the budget, its first Budget
\* characters and a notice beyond
Budgeted(rest) ==
    IF Len(rest) <= Budget THEN last.out = rest
    ELSE /\ Slice(last.out, 0, Budget) = Slice(rest, 0, Budget)
         /\ From(last.out, Budget)
              = "\n... (truncated to " \o IntToStr(Budget) \o " characters)"

Checked == last.op = "check_plan_integrity" /\ PLAN \in DOMAIN files

\* the lines of the plan that are unchecked checklist items
UncheckedLines ==
    LET lines == ReadLines(files[PLAN])
    IN  {k \in 1 .. Len(lines) : is_incomplete_task(lines[k])}

\* the progress document has a line that is a bullet
HasBulletLine ==
    /\ PROGRESS \in DOMAIN files
    /\ \E p \in LineStarts(files[PROGRESS]) : StartsWith(From(files[PROGRESS], p), "- ")

PassMessage == OkMark \o " Plan Integrity Check Passed!"
IssuesMessage == WarnMark \o " Plan Incomplete / Issues Found:\n"

(* C20: on an existing plan check_plan_integrity returns the pass message  *)
(* if and only if findings.md and progress.md exist, no line of the plan   *)
(* is an unchecked checklist item and progress.md has a bullet line;       *)
(* otherwise it returns the issues message listing each condition that     *)
(* fails and no other.                                                     *)
C20_PassIffComplete ==
    Checked =>
        LET complete == /\ FINDINGS \in DOMAIN files
                        /\ PROGRESS \in DOMAIN files
                        /\ UncheckedLines = {}
                        /\ HasBulletLine
        IN  /\ StartsWith(last.out, PassMessage) <=> complete
            /\ ~complete =>
                  /\ StartsWith(last.out, IssuesMessage)
                  /\ Contains(last.out, "- Missing findings.md")
                       <=> FINDINGS \notin DOMAIN files
                  /\ Contains(last.out, "- Missing progress.md")
                       <=> PROGRESS \notin DOMAIN files
                  /\ Contains(last.out, " tasks pending in task_plan.md")
                       <=> UncheckedLines # {}
                  /\ Contains(last.out, "- progress.md seems empty")
                       <=> (PROGRESS \in DOMAIN files /\ ~HasBulletLine)

(***************************************************************************)
(* What the claims say about a call one of whose steps raised.             *)
(***************************************************************************)
MutatingOps ==
    {"create_plan", "update_plan", "mark_complete", "add_todo", "save_finding",
     "log_progress", "log_error", "cleanup_plan"}

\* the call returned the error result of its except clause
Failed == last.op \in MutatingOps /\ StartsWith(last.out, ErrMark \o " Error")

(* C21: a mutating operation that returns its error result has left the    *)
(* documents exactly as they were before the call.                         *)
C21_FailureLeavesDocuments == Failed => files = last.pre

(* C27: when log_error returns its logged-error result, the plan holds the *)
(* new error entry and the progress document holds the bullet              *)
(* "ERROR: error".                                                         *)
C27_LoggedMeansBoth ==
    (last.op = "log_error" /\ StartsWith(last.out, WarnMark \o " Logged error: ")) =>
        /\ PLAN \in DOMAIN files
        /\ Contains(files[PLAN], ErrorEntry)
        /\ PROGRESS \in DOMAIN files
        /\ Contains(files[PROGRESS], ErrorBullet)

(***************************************************************************)
(* What the claims say about the result strings.                           *)
(***************************************************************************)
\* the call did what it is for
Done ==
    \/ last.op \in {"create_plan", "save_finding", "log_progress"}
    \/ last.op \in {"update_plan", "add_todo", "log_error", "get_status"}
         /\ PLAN \in DOMAIN last.pre
    \/ last.op = "mark_complete" /\ files # last.pre
    \/ CleanedUp

\* the call did not find the document it works on
NotFound ==
    \/ last.op \in PlanOps \cup {"get_status", "check_plan_integrity"}
         /\ PLAN \notin DOMAIN last.pre
    \/ last.op = "read_findings" /\ FINDINGS \notin DOMAIN last.pre

(* C22: the prefix of the result tells the outcome: a result of a call     *)
(* that did what it is for carries neither the warning nor the error       *)
(* prefix, and a result of a call that did not find its document carries   *)
(* the warning prefix.                                                     *)
C22_PrefixTellsOutcome ==
    /\ Done => ~StartsWith(last.out, WarnMark) /\ ~StartsWith(last.out, ErrMark)
    /\ NotFound => StartsWith(last.out, WarnMark)

(***************************************************************************)
(* What the claims say about the operations that only read.                *)
(***************************************************************************)
ReadOnlyOps == {"get_status", "check_plan_integrity", "read_plan", "read_findings"}

(* C23: a call of get_status, check_plan_integrity, read_plan or           *)
(* read_findings leaves the documents and the directory as they are; its   *)
(* result is that of the same call made right before it, and the counts    *)
(* get_status shows are those of the plan as it is on disk at the call.    *)
C23_PureReads ==
    [][ last'.op \in ReadOnlyOps =>
          /\ files' = files
          /\ root' = root
          /\ (last.op = last'.op /\ last.args = last'.args) => last'.out = last.out
          /\ (last'.op = "get_status" /\ PLAN \in DOMAIN files) =>
                Contains(last'.out,
                         "Progress: " \o IntToStr(_get_planning_data(files).completed)
                           \o "/" \o IntToStr(_get_planning_data(files).total) \o " (")
      ]_allvars

\* get_status right after a mark_complete that checked an item
C23_Witness ==
    /\ last.op = "get_status"
    /\ last.pre = files
    /\ PLAN \in DOMAIN files
    /\ Contains(files[PLAN], "- [x] Define requirements\n")
    /\ Contains(last.out, "Progress: 1/3 (33%)")

(***************************************************************************)
(* What the claims say about tools invoked one after another.              *)
(***************************************************************************)
\* what a call that returned its success result did is in the documents
EffectKept(c) ==
    IF c.op = "update_plan"
    THEN Contains(files[PLAN], "## " \o c.args[1] \o "\n" \o c.args[2] \o "\n")
    ELSE IF c.op = "mark_complete"
    THEN StartsWith(c.out, OkMark) => Contains(files[PLAN], "- [x] " \o c.args[1] \o "\n")
    ELSE IF c.op = "log_progress"
    THEN Contains(files[PROGRESS], Bullet(c.args[1], c.args[2]) \o "\n")
    ELSE /\ Contains(files[PLAN], "**Error:** " \o c.args[1] \o "\n")
         /\ Contains(files[PROGRESS], Bullet("ERROR: " \o c.args[1], TRUE) \o "\n")

(* C24: with the tools invoked one after another, no two calls are between *)
(* the read and the write of the same document at the same time, and once  *)
(* the calls are through, what each of them did is in the documents: the   *)
(* section of update_plan and the checked item of mark_complete in the     *)
(* plan, the entries of log_progress and of log_error in progress.md.      *)
C24_NoLostUpdate ==
    /\ \A i, j \in DOMAIN inflight :
          (i # j /\ InCycle(inflight[i]) /\ InCycle(inflight[j])) =>
             CycleDocument(inflight[i]) # CycleDocument(inflight[j])
    /\ \A i \in DOMAIN inflight : inflight[i].pc = "done" => EffectKept(inflight[i])

(* C25: after a poll the status view displays the directory as it is at    *)
(* that poll: whatever changed in the documents since the poll before      *)
(* (the objective, the text or phase of items, the presence of the plan or *)
(* of findings.md and progress.md), content_box is what _update_content    *)
(* builds from the data read at this poll.                                 *)
C25_DisplayedIsOnDisk ==
    last.op = "_update_content" => content_box = Display(_get_planning_data(files))

(***************************************************************************)
(* What the claims say about items that are checked already.               *)
(***************************************************************************)
\* the line is a checklist line with `[x]` in its box
IsCheckedLine(line) ==
    LET i == SkipSpaces(line, 0)
        j == SkipSpaces(line, i + 1)
    IN  Chr(line, i) \in {"-", "*"} /\ Slice(line, j, j + 3) = "[x]"

\* the text of a checked line, taken as mark_complete takes that of an
\* unchecked one
CheckedText(line) ==
    LET i == SkipSpaces(line, 0)
        j == SkipSpaces(line, i + 1)
    IN  Strip(From(line, j + 3))

\* the checked lines of the plan before the call
CheckedBefore == {k \in 1 .. Len(LinesBefore) : IsCheckedLine(LinesBefore[k])}

\* the target is the text of a checked item and of no unchecked item
TargetIsChecked ==
    /\ Marked
    /\ \E k \in CheckedBefore : CheckedText(LinesBefore[k]) = Strip(Target)
    /\ ExactItems = {}

(* C26 as stated: mark_complete called with a target that is the text of an *)
(* already-checked item, and of no unchecked item, returns the not-found   *)
(* warning and leaves the plan unchanged; a repeated call checks nothing   *)
(* further.                                                                *)
C26_AsStated == TargetIsChecked => (MarkNotFound /\ files = last.pre)

(* C26: mark_complete called with a target that is the text of an          *)
(* already-checked item, and of no unchecked item, never changes a checked *)
(* line; it returns the not-found warning and leaves the plan unchanged    *)
(* when no unchecked item contains the target or is similar to it above    *)
(* 0.8, and otherwise checks the best-scoring unchecked item.              *)
C26_CheckedNeverCandidates ==
    TargetIsChecked =>
        /\ \A k \in CheckedBefore : LinesAfter[k] = LinesBefore[k]
        /\ IF Scores = {} THEN MarkNotFound /\ files = last.pre
           ELSE OnlyLineChecked(BestOf(Scores))

\* the call was repeated on a plan that still has unchecked items, none of
\* which contains the target or is similar to it: nothing was checked
C26_Witness ==
    /\ TargetIsChecked
    /\ Unchecked # {}
    /\ Scores = {}
    /\ MarkNotFound /\ files = last.pre

(***************************************************************************)
(* What the claims say about a target without text.                        *)
(***************************************************************************)
BlankTarget == Marked /\ Strip(Target) = ""

\* the unchecked lines without text
EmptyItems == {k \in Unchecked : ItemText(k) = ""}

(* C30: with an empty or whitespace-only target mark_complete succeeds     *)
(* whenever the plan has an unchecked checklist line: it checks the first  *)
(* unchecked line whose text is empty if there is one, and otherwise the   *)
(* first unchecked line in document order, every unchecked item being a    *)
(* candidate at 0.9; without an unchecked line the result is not-found.    *)
C30_BlankTarget ==
    BlankTarget =>
        /\ \A k \in Unchecked : <<k, <<9, 10>> >> \in Scores
        /\ IF Unchecked = {} THEN MarkNotFound /\ files = last.pre
           ELSE IF EmptyItems # {} THEN OnlyLineChecked(SetMin(EmptyItems))
           ELSE OnlyLineChecked(SetMin(Unchecked))

\* an unchecked line without text was checked although an unchecked item
\* with a text stands before it
C30_Witness ==
    /\ BlankTarget
    /\ EmptyItems # {}
    /\ SetMin(Unchecked) < SetMin(EmptyItems)
    /\ OnlyLineChecked(SetMin(EmptyItems))

(***************************************************************************)
(* What the claims say about update_plan called twice.                     *)
(***************************************************************************)
\* the second of two equal update_plan calls has been made
UpdatedTwice == steps = 2 /\ last.op = "update_plan" /\ hist.args = last.args

\* the content has a line that starts a level-2 section
HasHeadingLine(content) == StartsWith(content, "## ") \/ Contains(content, "\n## ")

(* C28 as stated: for every plan, section name and content without a       *)
(* level-2 heading line, the second of two equal update_plan calls leaves  *)
(* the document as the first call left it.                                 *)
C28_AsStated ==
    (UpdatedTwice /\ ~HasHeadingLine(last.args[2])) => files = last.pre

(* C28: for every plan, section name without a line break and content      *)
(* without a level-2 heading line, the second of two equal update_plan     *)
(* calls leaves the document as the first call left it, whether the first  *)
(* call found the section or created it.                                   *)
C28_UpdateIdempotent ==
    (UpdatedTwice /\ ~HasHeadingLine(last.args[2]) /\ ~Contains(last.args[1], "\n")) =>
        /\ files = last.pre
        /\ last.out = OkMark \o " Updated section '" \o last.args[1] \o "'"

\* the first call created the section, the second found it and wrote the
\* same document again
C28_Witness ==
    /\ UpdatedTwice /\ ~HasHeadingLine(last.args[2]) /\ ~Contains(last.args[1], "\n")
    /\ StartsWith(hist.out, OkMark \o " Added new section")
    /\ last.args[2] # ""
    /\ files = last.pre

(***************************************************************************)
(* What the claims say about the counts of the status.                     *)
(***************************************************************************)
CountingOps == {"add_todo", "mark_complete", "log_error", "log_progress", "save_finding"}

(* C29: a call of add_todo, mark_complete, log_error, log_progress or      *)
(* save_finding on an existing plan never makes the completed count or the *)
(* total count of the status smaller, and after it 0 <= completed <= total *)
(* holds.                                                                  *)
C29_CountsNeverDecrease ==
    [][ (last'.op \in CountingOps /\ PLAN \in DOMAIN files) =>
           LET before == _get_planning_data(files)
               after == _get_planning_data(files')
           IN  /\ after.completed >= before.completed
               /\ after.total >= before.total
               /\ 0 <= after.completed
               /\ after.completed <= after.total ]_allvars
====
